---- MODULE Spec2Model ----
(***************************************************************************)
(* Handle-lifetime model of the sugar library: the interface variant of    *)
(* Chain (src/sugar.go, third revision, lines 595-877), the arena          *)
(* sugarContext (src/unnamed/part_007) and Runner (src/unnamed/part_010).  *)
(*                                                                         *)
(* The foreign runtime (go-ole) is a collaborator: a fixed set of objects, *)
(* each with a Count property, whose calls may fail independently.  The    *)
(* model counts, per object, the references the core acquired and the      *)
(* foreign releases the core issued.  A VARIANT of type VT_DISPATCH        *)
(* returned by GetProperty/CallMethod carries one reference, which         *)
(* VARIANT.Clear gives back.                                               *)
(***************************************************************************)
EXTENDS Naturals, Integers, Sequences, FiniteSets, TLC

\* ---- bounds -------------------------------------------------------------
NObj       == 2    \* foreign objects
MaxChains  == 2    \* Chain instances the caller or an arena keeps
MaxArenas  == 2    \* Context instances ever constructed
MaxDepth   == 2    \* call-stack depth (Do scopes and ForEach callbacks)
MaxCount   == 1    \* cap of the foreign Count property
MaxStored  == 1    \* handles handed to the caller by Store
MaxItems   == 1    \* elements of an enumerated collection
MaxTracked == 2    \* entries of one arena's tracked list
MaxGos     == 1    \* goroutines started by Go and still running
MaxEnum    == 3    \* elements of a collection in the properties of ForEach
MaxAcquired == 4  \* references acquired on one object in the runs with expressions

\* ---- values -------------------------------------------------------------
NIL        == 0
\* a context.WithCancel(context.Background()) whose cancel function was called
CancelledCtx == -1
Obj        == 1..NObj
NoErr      == "nil"
ErrDispatchNil == "dispatch is nil"
ErrNilDispatch == "nil dispatch"
ErrNotObject   == "_NewEnum is not object"
ErrBreak       == "break"
ErrIsDispatch  == "result is IDispatch, use Store"
\* the foreign runtime's errors are opaque; one value per failing operation
ErrCreate      == "create failed"
ErrGetActive   == "getactive failed"
ErrGet         == "get failed"
ErrCall        == "call failed"
ErrPut         == "put failed"
Panic          == "panic"
ErrInit        == "init failed"
ForeignErrs    == {ErrCreate, ErrGetActive, ErrGet, ErrCall, ErrPut, ErrInit}
CallbackErrs   == {"cb"}

\* the break sentinel whose recording is documented, and the break errors
\* that carry a value; errorsIs and errorsAs are errors.Is(err, target) and
\* errors.As(err, *ForEachBreak) over the errors of the model
ErrForEachBreak == "foreach break"
BreakValues == {"captured data", "other data"}
ForEachBreak == [v \in BreakValues |-> "foreach break: " \o v]
BreakErrs == {ErrForEachBreak} \cup {ForEachBreak[v] : v \in BreakValues}

errorsIs(err, target) ==
  err = target \/ (target = ErrForEachBreak /\ err \in BreakErrs)

errorsAs(err) ==
  IF \E v \in BreakValues : err = ForEachBreak[v]
  THEN [ok |-> TRUE, Value |-> CHOOSE v \in BreakValues : err = ForEachBreak[v]]
  ELSE [ok |-> FALSE, Value |-> ""]

NoResult   == [vt |-> "NIL", val |-> 0]
Scalar(n)  == [vt |-> "I4", val |-> n]
Dispatch(o) == [vt |-> "DISPATCH", val |-> o]

VARIABLES
  chains,     \* every chain instance constructed so far, by identity
  arenas,     \* every sugarContext constructed so far, by identity
  acquired,   \* per object: references the core acquired for itself
  released,   \* per object: foreign releases the core issued
  stored,     \* per object: references added by Store and handed to the caller
  count,      \* foreign state: the Count property of each object
  frames,     \* call stack: Do scopes and ForEach callbacks in progress
  comInit,    \* CoInitialize calls not yet undone on this thread
  locked,     \* LockOSThread calls not yet undone on this thread
  gos         \* goroutines started by Go: arena, CoInitialize and LockOSThread counts

vars == <<chains, arenas, acquired, released, stored, count, frames, comInit, locked, gos>>

\* ---- the heap an operation works on --------------------------------------
\* relLog: objects released by this operation, in order; order: chains whose
\* Release ran, in order; calls: foreign get/put/call invocations, in order;
\* steps: what a Runner did to the thread and its arena, in order.
Heap ==
  [chains |-> chains, arenas |-> arenas, acquired |-> acquired,
   released |-> released, stored |-> stored, count |-> count,
   relLog |-> <<>>, order |-> <<>>, calls |-> <<>>, steps |-> <<>>]

\* the chain struct literal; owns records whether the constructing code path
\* acquired a reference for disp
MkChain(disp, err, lastResult, ctx, owns) ==
  [disp |-> disp, err |-> err, lastResult |-> lastResult, ctx |-> ctx,
   owns |-> owns]

\* a method's result: the heap it leaves and the chain it returns
Ret(h, c) ==
  [h |-> h, ret |-> c]

\* &chain{...}: a new instance, returned
New(h, rec) ==
  Ret([h EXCEPT !.chains = Append(@, rec)], Len(h.chains) + 1)

AddRef(h, o) ==
  [h EXCEPT !.acquired[o] = @ + 1]

ReleaseObj(h, o) ==
  [h EXCEPT !.released[o] = @ + 1, !.relLog = Append(@, o)]

VariantClear(h, v) ==
  IF v.vt = "DISPATCH" THEN ReleaseObj(h, v.val) ELSE h

Invoke(h, kind, o, name) ==
  [h EXCEPT !.calls = Append(@, <<kind, o, name>>)]

\* runtime.LockOSThread, ole.CoInitialize and their undoing
Step(h, s) ==
  [h EXCEPT !.steps = Append(@, s)]

\* occurrences of x in a sequence
Occ(seq, x) ==
  Cardinality({i \in 1..Len(seq) : seq[i] = x})

\* ---- sugarContext ---------------------------------------------------------
\* active: the parent carries activeSugarKey; done: the parent's Done channel
\* is closed, which the embedded context.Context hands on
NewContext(h, active, done) ==
  [h EXCEPT !.arenas = Append(@, [chains |-> <<>>, isNil |-> FALSE,
                                  active |-> active, done |-> done])]

Track(h, c, ch) ==
  [h EXCEPT !.chains[ch].ctx = c,
            !.arenas[c].chains = Append(@, ch),
            !.arenas[c].isNil = FALSE]

\* chain.Release as it would be without "c.disp = nil"
chainReleaseKeepsDisp(h, c) ==
  LET ch == h.chains[c]
      h1 == IF ch.disp # NIL THEN ReleaseObj(h, ch.disp) ELSE h
      h2 == IF ch.lastResult # NoResult THEN VariantClear(h1, ch.lastResult) ELSE h1
      h3 == [h2 EXCEPT !.chains[c].lastResult = NoResult,
                       !.chains[c].err = NoErr,
                       !.order = Append(@, c)]
  IN [h |-> h3, err |-> ch.err]

\* ---- chain.Release --------------------------------------------------------
chainRelease(h, c) ==
  LET ch == h.chains[c]
      h1 == IF ch.disp # NIL THEN ReleaseObj(h, ch.disp) ELSE h
      h2 == IF ch.lastResult # NoResult THEN VariantClear(h1, ch.lastResult) ELSE h1
      h3 == [h2 EXCEPT !.chains[c].disp = NIL,
                       !.chains[c].lastResult = NoResult,
                       !.chains[c].err = NoErr,
                       !.order = Append(@, c)]
  IN [h |-> h3, err |-> ch.err]

\* ---- sugarContext.Release -------------------------------------------------
\* the release loop as it would be walking the tracked list front to back
RECURSIVE ReleaseLoopFifo(_, _, _, _)
ReleaseLoopFifo(h, list, i, firstErr) ==
  IF i < 1 THEN [h |-> h, err |-> firstErr]
  ELSE LET r == chainRelease(h, list[Len(list) + 1 - i])
       IN ReleaseLoopFifo(r.h, list, i - 1,
                          IF r.err # NoErr /\ firstErr = NoErr THEN r.err ELSE firstErr)

\* the release loop as it would be returning at the first error
RECURSIVE ReleaseLoopStops(_, _, _, _)
ReleaseLoopStops(h, list, i, firstErr) ==
  IF i < 1 THEN [h |-> h, err |-> firstErr]
  ELSE LET r == chainRelease(h, list[i])
       IN IF r.err # NoErr THEN [h |-> r.h, err |-> r.err]
          ELSE ReleaseLoopStops(r.h, list, i - 1, firstErr)

RECURSIVE ReleaseLoop(_, _, _, _)
ReleaseLoop(h, list, i, firstErr) ==
  IF i < 1 THEN [h |-> h, err |-> firstErr]
  ELSE LET r == chainRelease(h, list[i])
       IN ReleaseLoop(r.h, list, i - 1,
                      IF r.err # NoErr /\ firstErr = NoErr THEN r.err ELSE firstErr)

\* sugarContext.Release as it would be without "c.chains = nil"
ContextReleaseKeepsList(h, c) ==
  IF h.arenas[c].isNil THEN [h |-> h, err |-> NoErr]
  ELSE LET list == h.arenas[c].chains
       IN ReleaseLoop(h, list, Len(list), NoErr)

ContextRelease(h, c) ==
  IF h.arenas[c].isNil THEN [h |-> h, err |-> NoErr]
  ELSE LET list == h.arenas[c].chains
           r == ReleaseLoop(h, list, Len(list), NoErr)
       IN [h |-> [r.h EXCEPT !.arenas[c].chains = <<>>, !.arenas[c].isNil = TRUE],
           err |-> r.err]

\* ---- constructors ---------------------------------------------------------
From(h, disp) ==
  LET h1 == IF disp # NIL THEN AddRef(h, disp) ELSE h
  IN New(h1, MkChain(disp, NoErr, NoResult, NIL, disp # NIL))

\* Create as it would be keeping the handle on the errored chain
CreateErrKeepsHandle(h, disp, err) ==
  IF err # NoErr
  THEN New(h, MkChain(disp, err, NoResult, NIL, FALSE))
  ELSE New(AddRef(h, disp), MkChain(disp, NoErr, NoResult, NIL, TRUE))

\* disp, err: what creating the object and querying IDispatch yield
Create(h, disp, err) ==
  IF err # NoErr
  THEN New(h, MkChain(NIL, err, NoResult, NIL, FALSE))
  ELSE New(AddRef(h, disp), MkChain(disp, NoErr, NoResult, NIL, TRUE))

GetActive(h, disp, err) ==
  IF err # NoErr
  THEN New(h, MkChain(NIL, err, NoResult, NIL, FALSE))
  ELSE New(AddRef(h, disp), MkChain(disp, NoErr, NoResult, NIL, TRUE))

\* handleResult as the mutable variant has it: the receiver itself takes the
\* result and is returned
handleResultInPlace(h, c, result, err) ==
  IF err # NoErr
  THEN Ret([h EXCEPT !.chains[c].err = err], c)
  ELSE IF result.vt = "DISPATCH"
       THEN Ret([AddRef(AddRef(h, result.val), result.val)
                   EXCEPT !.chains[c].disp = result.val,
                          !.chains[c].lastResult = result], c)
       ELSE Ret([h EXCEPT !.chains[c].lastResult = result], c)

\* ---- chain.handleResult, Get, Call ----------------------------------------
\* handleResult as it would be registering every new chain with the first
\* arena of the program
handleResultTracksFirst(h, c, result, err) ==
  IF err # NoErr
  THEN New(h, MkChain(NIL, err, NoResult, h.chains[c].ctx, FALSE))
  ELSE IF result.vt = "DISPATCH"
       THEN LET r == New(AddRef(AddRef(h, result.val), result.val),
                         MkChain(result.val, NoErr, result, h.chains[c].ctx, TRUE))
            IN IF h.chains[c].ctx # NIL
               THEN Ret(Track(r.h, 1, r.ret), r.ret)
               ELSE r
       ELSE New(h, MkChain(h.chains[c].disp, NoErr, result, h.chains[c].ctx, FALSE))

\* result: the VARIANT returned; err: NoErr or the foreign error
handleResult(h, c, result, err) ==
  IF err # NoErr
  THEN New(h, MkChain(NIL, err, NoResult, h.chains[c].ctx, FALSE))
  ELSE IF result.vt = "DISPATCH"
       THEN LET r == New(AddRef(AddRef(h, result.val), result.val),
                         MkChain(result.val, NoErr, result, h.chains[c].ctx, TRUE))
            IN IF h.chains[c].ctx # NIL
               THEN Ret(Track(r.h, h.chains[c].ctx, r.ret), r.ret)
               ELSE r
       ELSE New(h, MkChain(h.chains[c].disp, NoErr, result, h.chains[c].ctx, FALSE))

\* the foreign object graph: the object that o.Child and o.Add() answer with
Child(o) ==
  (o % NObj) + 1

\* what the foreign runtime answers to a property read on o
PropertyValue(h, o, prop) ==
  IF prop = "Count" THEN Scalar(h.count[o]) ELSE Dispatch(Child(o))

\* Get as it would be without the check of c.err
GetIgnoresErr(h, c, prop, ferr) ==
  LET ch == h.chains[c] IN
  IF ch.disp = NIL
  THEN New(h, MkChain(NIL, ErrDispatchNil, NoResult, ch.ctx, FALSE))
  ELSE LET h1 == Invoke(h, "get", ch.disp, prop)
       IN IF ferr # NoErr
          THEN handleResult(h1, c, NoResult, ferr)
          ELSE handleResult(h1, c, PropertyValue(h1, ch.disp, prop), NoErr)

Get(h, c, prop, ferr) ==
  LET ch == h.chains[c] IN
  IF ch.err # NoErr
  THEN New(h, MkChain(NIL, ch.err, NoResult, ch.ctx, FALSE))
  ELSE IF ch.disp = NIL
  THEN New(h, MkChain(NIL, ErrDispatchNil, NoResult, ch.ctx, FALSE))
  ELSE LET h1 == Invoke(h, "get", ch.disp, prop)
       IN IF ferr # NoErr
          THEN handleResult(h1, c, NoResult, ferr)
          ELSE handleResult(h1, c, PropertyValue(h1, ch.disp, prop), NoErr)

\* the only method of the foreign objects, Add, increments Count and returns
\* an object
Call(h, c, method, ferr) ==
  LET ch == h.chains[c] IN
  IF ch.err # NoErr
  THEN New(h, MkChain(NIL, ch.err, NoResult, ch.ctx, FALSE))
  ELSE IF ch.disp = NIL
  THEN New(h, MkChain(NIL, ErrDispatchNil, NoResult, ch.ctx, FALSE))
  ELSE LET h1 == Invoke(h, "call", ch.disp, method)
       IN IF ferr # NoErr
          THEN handleResult(h1, c, NoResult, ferr)
          ELSE handleResult([h1 EXCEPT !.count[ch.disp] = @ + 1], c,
                            Dispatch(Child(ch.disp)), NoErr)

\* ---- chain.Put, Fork, Store ------------------------------------------------
Put(h, c, prop, v, ferr) ==
  LET ch == h.chains[c] IN
  IF ch.err # NoErr \/ ch.disp = NIL
  THEN Ret(h, c)
  ELSE LET h1 == Invoke(h, "put", ch.disp, prop)
       IN IF ferr # NoErr
          THEN New(h1, MkChain(ch.disp, ferr, NoResult, ch.ctx, FALSE))
          ELSE Ret(IF prop = "Count" THEN [h1 EXCEPT !.count[ch.disp] = v] ELSE h1, c)

\* Fork as it would be copying the handle without AddRef
ForkShares(h, c) ==
  LET ch == h.chains[c] IN
  IF ch.err # NoErr
  THEN New(h, MkChain(NIL, ch.err, NoResult, ch.ctx, FALSE))
  ELSE IF ch.disp = NIL
  THEN New(h, MkChain(NIL, ErrNilDispatch, NoResult, ch.ctx, FALSE))
  ELSE LET r == New(h, MkChain(ch.disp, NoErr, NoResult, ch.ctx, TRUE))
       IN IF ch.ctx # NIL THEN Ret(Track(r.h, ch.ctx, r.ret), r.ret) ELSE r

Fork(h, c) ==
  LET ch == h.chains[c] IN
  IF ch.err # NoErr
  THEN New(h, MkChain(NIL, ch.err, NoResult, ch.ctx, FALSE))
  ELSE IF ch.disp = NIL
  THEN New(h, MkChain(NIL, ErrNilDispatch, NoResult, ch.ctx, FALSE))
  ELSE LET r == New(AddRef(h, ch.disp), MkChain(ch.disp, NoErr, NoResult, ch.ctx, TRUE))
       IN IF ch.ctx # NIL THEN Ret(Track(r.h, ch.ctx, r.ret), r.ret) ELSE r

\* Store as it would be handing out the chain's own reference
StoreNoAddRef(h, c) ==
  LET ch == h.chains[c] IN
  IF ch.err # NoErr THEN [h |-> h, disp |-> NIL, err |-> ch.err]
  ELSE IF ch.disp = NIL THEN [h |-> h, disp |-> NIL, err |-> ErrNilDispatch]
  ELSE [h |-> h, disp |-> ch.disp, err |-> NoErr]

\* returns the handle handed to the caller (NIL for none) and the error
Store(h, c) ==
  LET ch == h.chains[c] IN
  IF ch.err # NoErr THEN [h |-> h, disp |-> NIL, err |-> ch.err]
  ELSE IF ch.disp = NIL THEN [h |-> h, disp |-> NIL, err |-> ErrNilDispatch]
  ELSE [h |-> [h EXCEPT !.stored[ch.disp] = @ + 1], disp |-> ch.disp, err |-> NoErr]

\* ---- chain.Value, Err ----------------------------------------------------------
\* Value as it would be without the test of VT_DISPATCH
ValueAnyResult(h, c) ==
  LET ch == h.chains[c] IN
  IF ch.err # NoErr THEN [h |-> h, val |-> NoResult, err |-> ch.err]
  ELSE [h |-> h, val |-> ch.lastResult, err |-> NoErr]

\* val: the Go value handed to the caller, NoResult for nil
Value(h, c) ==
  LET ch == h.chains[c] IN
  IF ch.err # NoErr THEN [h |-> h, val |-> NoResult, err |-> ch.err]
  ELSE IF ch.lastResult = NoResult THEN [h |-> h, val |-> NoResult, err |-> NoErr]
  ELSE IF ch.lastResult.vt = "DISPATCH"
  THEN [h |-> h, val |-> NoResult, err |-> ErrIsDispatch]
  ELSE [h |-> h, val |-> ch.lastResult, err |-> NoErr]

Err(h, c) ==
  [h |-> h, err |-> h.chains[c].err]

\* ---- chain.ForEach ----------------------------------------------------------
\* items: what enum.Next yields before it reports an error or nothing
\* fetched; NIL stands for an element that is not an object (skipped)
RECURSIVE NextDispatch(_)
NextDispatch(items) ==
  IF items = <<>> THEN <<>>
  ELSE IF Head(items) # NIL THEN items ELSE NextDispatch(Tail(items))

Iter(h, ret, done, item, itemVar, items) ==
  [h |-> h, ret |-> ret, done |-> done, item |-> item, itemVar |-> itemVar,
   items |-> items]

\* the for loop, from its top to the next callback invocation or to the return
forEachLoop(h, c, items) ==
  LET rest == NextDispatch(items) IN
  IF rest = <<>> THEN Iter(h, c, TRUE, NIL, NoResult, <<>>)
  ELSE LET o == Head(rest)
           r == New(AddRef(AddRef(h, o), o),
                    MkChain(o, NoErr, NoResult, h.chains[c].ctx, TRUE))
           h2 == IF h.chains[c].ctx # NIL THEN Track(r.h, h.chains[c].ctx, r.ret) ELSE r.h
       IN Iter(h2, NIL, FALSE, r.ret, Dispatch(o), Tail(rest))

\* ForEach up to its first callback invocation; outcome: "ok" or the error of
\* obtaining the enumerator
ForEach(h, c, outcome, items) ==
  LET ch == h.chains[c] IN
  IF ch.err # NoErr \/ ch.disp = NIL
  THEN Iter(h, c, TRUE, NIL, NoResult, <<>>)
  ELSE LET h1 == Invoke(h, "get", ch.disp, "_NewEnum")
       IN IF outcome # "ok"
          THEN LET r == New(h1, MkChain(NIL, outcome, NoResult, ch.ctx, FALSE))
               IN Iter(r.h, r.ret, TRUE, NIL, NoResult, <<>>)
          ELSE forEachLoop(h1, c, items)

\* ---- package expression: the syntax tree ----------------------------------------
\* the nodes of expr-lang's ast that comVisitor.eval distinguishes; node holds
\* the operand (ast.MemberNode.Node, ast.CallNode.Callee) as a sequence of
\* length one or zero, value the identifier or property name, int the value
\* of an integer literal
IdentifierNode(name) ==
  [kind |-> "Identifier", value |-> name, int |-> 0, node |-> <<>>, args |-> <<>>]

MemberNode(n, prop) ==
  [kind |-> "Member", value |-> prop, int |-> 0, node |-> <<n>>, args |-> <<>>]

CallNode(callee, arguments) ==
  [kind |-> "Call", value |-> "", int |-> 0, node |-> <<callee>>, args |-> arguments]

IntegerNode(n) ==
  [kind |-> "Integer", value |-> "", int |-> n, node |-> <<>>, args |-> <<>>]

NilNode ==
  [kind |-> "Nil", value |-> "", int |-> 0, node |-> <<>>, args |-> <<>>]

ArrayNode ==
  [kind |-> "Array", value |-> "", int |-> 0, node |-> <<>>, args |-> <<>>]

\* the expressions of the model and what parser.Parse makes of each; an
\* expression the parser rejects has no tree
Expressions ==
  {"Count", "Child", "A", "Add()", "Child.Count", "Child.Child", "A.Count",
   "A.Child", "Child.Add()", "A.B(1,2).C", "A.B(1,2)", "Add(Count)", "[]", "1",
   "Child.", "nil"}

ParseFails(expression) ==
  expression = "Child."

Parse(expression) ==
  CASE expression = "Count"       -> IdentifierNode("Count")
    [] expression = "Child"       -> IdentifierNode("Child")
    [] expression = "A"           -> IdentifierNode("A")
    [] expression = "Add()"       -> CallNode(IdentifierNode("Add"), <<>>)
    [] expression = "Child.Count" -> MemberNode(IdentifierNode("Child"), "Count")
    [] expression = "Child.Child" -> MemberNode(IdentifierNode("Child"), "Child")
    [] expression = "A.Count"     -> MemberNode(IdentifierNode("A"), "Count")
    [] expression = "A.Child"     -> MemberNode(IdentifierNode("A"), "Child")
    [] expression = "Child.Add()" ->
         CallNode(MemberNode(IdentifierNode("Child"), "Add"), <<>>)
    [] expression = "A.B(1,2)"    ->
         CallNode(MemberNode(IdentifierNode("A"), "B"), <<IntegerNode(1), IntegerNode(2)>>)
    [] expression = "A.B(1,2).C"  ->
         MemberNode(CallNode(MemberNode(IdentifierNode("A"), "B"),
                             <<IntegerNode(1), IntegerNode(2)>>), "C")
    [] expression = "Add(Count)"  ->
         CallNode(IdentifierNode("Add"), <<IdentifierNode("Count")>>)
    [] expression = "[]"          -> ArrayNode
    [] expression = "1"           -> IntegerNode(1)
    [] OTHER                      -> NilNode

\* ---- package expression: values and errors --------------------------------------
\* what eval returns as interface{}: a chain, a plain integer or nil
ChainVal(c) == [kind |-> "chain", v |-> c]
IntVal(n)   == [kind |-> "int", v |-> n]
NilVal      == [kind |-> "nil", v |-> 0]

\* VARIANT.Value(): the plain value of a scalar result
PlainOf(variant) ==
  IF variant.vt = "I4" THEN IntVal(variant.val) ELSE NilVal

ErrParse           == "parse error"
ErrInvalidPut      == "invalid Put expression: must be property access"
ErrParentNotCom    == "parent is not COM object"
ErrIdentNotFound   == "identifier not found"
ErrCannotAccess    == "cannot access property on type"
ErrCannotCall      == "cannot call method on type"
ErrMethodNotFound  == "method not found"
ErrUnsupportedCall == "unsupported call"
ErrUnsupportedNode == "unsupported node"
ErrNotComObject    == "expression did not evaluate to a COM object"

\* fmt.Errorf("arg %d error: %w", i, err)
ErrArg(err) == "arg error: " \o err

\* the environments of Run: a chain, a raw handle, a map from names to values
ChainEnv(c)  == [kind |-> "Chain", chain |-> c, disp |-> NIL, envMap |-> <<>>]
HandleEnv(o) == [kind |-> "Dispatch", chain |-> NIL, disp |-> o, envMap |-> <<>>]
MapEnv(m)    == [kind |-> "Map", chain |-> NIL, disp |-> NIL, envMap |-> m]

\* &comVisitor{initialChain: chain, envMap: envMap}; a nil envMap is the map
\* without names
Visitor(chain, m) ==
  [initialChain |-> chain, envMap |-> m]

\* the switch on the type of env in Run and in Put
NewVisitor(h, env) ==
  IF env.kind = "Chain" THEN [h |-> h, v |-> Visitor(env.chain, <<>>)]
  ELSE IF env.kind = "Dispatch"
  THEN LET r == From(h, env.disp) IN [h |-> r.h, v |-> Visitor(r.ret, <<>>)]
  ELSE [h |-> h, v |-> Visitor(NIL, env.envMap)]

\* the foreign error of an invocation of name: fails is the set of the names
\* the foreign runtime refuses
Ferr(fails, name, err) ==
  IF name \in fails THEN err ELSE NoErr

\* the call as it would be issued without the evaluated arguments
CallWithoutArgs(h, c, method, args, ferr) ==
  LET r == Call(h, c, method, ferr)
      n == Len(r.h.calls)
  IN IF n > Len(h.calls)
     THEN [r EXCEPT !.h.calls[n] = Append(@, <<>>)]
     ELSE r

\* chain.Call(method, args...): the arguments go to the foreign call as they are
CallWith(h, c, method, args, ferr) ==
  LET r == Call(h, c, method, ferr)
      n == Len(r.h.calls)
  IN IF n > Len(h.calls)
     THEN [r EXCEPT !.h.calls[n] = Append(@, args)]
     ELSE r

Result(h, val, err) ==
  [h |-> h, val |-> val, err |-> err]

\* ---- comVisitor.eval ------------------------------------------------------------
\* F of the value of e, with e evaluated once
Bind(e, F(_)) ==
  CHOOSE y \in {F(x) : x \in {e}} : TRUE

RECURSIVE eval(_, _, _, _)
RECURSIVE evalArguments(_, _, _, _, _)

\* case *ast.MemberNode, from the value of its operand on
evalMember(left, node, fails) ==
  IF left.err # NoErr THEN Result(left.h, NilVal, left.err)
  ELSE IF left.val.kind # "chain" THEN Result(left.h, NilVal, ErrCannotAccess)
  ELSE Bind(Get(left.h, left.val.v, node.value, Ferr(fails, node.value, ErrGet)),
            LAMBDA r : Result(r.h, ChainVal(r.ret), NoErr))

\* a call through a member, from the value of the member's operand on
evalMethod(obj, callee, args, fails) ==
  IF obj.err # NoErr THEN Result(obj.h, NilVal, obj.err)
  ELSE IF obj.val.kind # "chain" THEN Result(obj.h, NilVal, ErrCannotCall)
  ELSE Bind(CallWith(obj.h, obj.val.v, callee.value, args,
                     Ferr(fails, callee.value, ErrCall)),
            LAMBDA r : Result(r.h, ChainVal(r.ret), NoErr))

\* case *ast.CallNode, from the evaluated arguments on; a function held by
\* the map is not modelled: the maps of the model hold chains and numbers
evalCall(a, v, callee, fails) ==
  IF a.err # NoErr THEN Result(a.h, NilVal, a.err)
  ELSE IF callee.kind = "Member"
  THEN Bind(eval(a.h, v, callee.node[1], fails),
            LAMBDA obj : evalMethod(obj, callee, a.args, fails))
  ELSE IF callee.kind = "Identifier"
  THEN IF v.initialChain # NIL
       THEN Bind(CallWith(a.h, v.initialChain, callee.value, a.args,
                          Ferr(fails, callee.value, ErrCall)),
                 LAMBDA r : Result(r.h, ChainVal(r.ret), NoErr))
       ELSE Result(a.h, NilVal, ErrMethodNotFound)
  ELSE Result(a.h, NilVal, ErrUnsupportedCall)

\* one turn of the loop over n.Arguments, from the value of the argument on
evalArgument(a, v, rest, fails, args) ==
  IF a.err # NoErr THEN [h |-> a.h, args |-> args, err |-> a.err]
  ELSE IF a.val.kind = "chain"
  THEN Bind(Value(a.h, a.val.v),
            LAMBDA val :
              IF val.err # NoErr
              THEN [h |-> val.h, args |-> args, err |-> ErrArg(val.err)]
              ELSE evalArguments(val.h, v, rest, fails, Append(args, PlainOf(val.val))))
  ELSE evalArguments(a.h, v, rest, fails, Append(args, a.val))

\* the loop over n.Arguments: args is what it has collected
evalArguments(h, v, arguments, fails, args) ==
  IF arguments = <<>> THEN [h |-> h, args |-> args, err |-> NoErr]
  ELSE Bind(eval(h, v, Head(arguments), fails),
            LAMBDA a : evalArgument(a, v, Tail(arguments), fails, args))

eval(h, v, node, fails) ==
  CASE node.kind = "Identifier" ->
         IF node.value \in DOMAIN v.envMap
         THEN Result(h, v.envMap[node.value], NoErr)
         ELSE IF v.initialChain # NIL
         THEN Bind(Get(h, v.initialChain, node.value, Ferr(fails, node.value, ErrGet)),
                   LAMBDA r : Result(r.h, ChainVal(r.ret), NoErr))
         ELSE Result(h, NilVal, ErrIdentNotFound)
    [] node.kind = "Member" ->
         Bind(eval(h, v, node.node[1], fails),
              LAMBDA left : evalMember(left, node, fails))
    [] node.kind = "Call" ->
         Bind(evalArguments(h, v, node.args, fails, <<>>),
              LAMBDA a : evalCall(a, v, node.node[1], fails))
    [] node.kind = "Integer" -> Result(h, IntVal(node.int), NoErr)
    [] node.kind = "Nil" -> Result(h, NilVal, NoErr)
    [] OTHER -> Result(h, NilVal, ErrUnsupportedNode)

\* ---- Compile, Run, Eval, Get, Put -----------------------------------------------
Run(h, node, env, fails) ==
  Bind(NewVisitor(h, env), LAMBDA nv : eval(nv.h, nv.v, node, fails))

Eval(h, expression, env, fails) ==
  IF ParseFails(expression) THEN Result(h, NilVal, ErrParse)
  ELSE Run(h, Parse(expression), env, fails)

\* Get as it would be handing out whatever chain the expression evaluates to
ExprGetAnyChain(h, obj, expression, fails) ==
  Eval(h, expression, obj, fails)

\* Get from the result of Eval on
getResult(result) ==
  IF result.err # NoErr THEN Result(result.h, NilVal, result.err)
  ELSE IF result.val.kind = "chain"
  THEN IF Err(result.h, result.val.v).err # NoErr
       THEN Result(result.h, NilVal, Err(result.h, result.val.v).err)
       ELSE Bind(Value(result.h, result.val.v),
                 LAMBDA val : Result(val.h, PlainOf(val.val), val.err))
  ELSE result

ExprGet(h, obj, expression, fails) ==
  Bind(Eval(h, expression, obj, fails), LAMBDA result : getResult(result))

\* Store from the result of Eval on: the handle handed to the caller (NIL for
\* none) and the error
storeResult(result) ==
  IF result.err # NoErr THEN [h |-> result.h, disp |-> NIL, err |-> result.err]
  ELSE IF result.val.kind = "chain"
  THEN IF Err(result.h, result.val.v).err # NoErr
       THEN [h |-> result.h, disp |-> NIL, err |-> Err(result.h, result.val.v).err]
       ELSE Store(result.h, result.val.v)
  ELSE [h |-> result.h, disp |-> NIL, err |-> ErrNotComObject]

ExprStore(h, obj, expression, fails) ==
  Bind(Eval(h, expression, obj, fails), LAMBDA result : storeResult(result))

\* Put as it would be evaluating the expression before looking at its top node
ExprPutEvaluatesFirst(h, obj, expression, value, fails) ==
  IF ParseFails(expression) THEN [h |-> h, err |-> ErrParse]
  ELSE Bind(Run(h, Parse(expression), obj, fails),
            LAMBDA result :
              IF Parse(expression).kind # "Member"
              THEN [h |-> result.h, err |-> ErrInvalidPut]
              ELSE [h |-> result.h, err |-> result.err])

\* Put as it would be putting under the name of the member's operand
putParentNamesOperand(parentObj, memberNode, value, fails) ==
  IF parentObj.err # NoErr THEN [h |-> parentObj.h, err |-> parentObj.err]
  ELSE IF parentObj.val.kind # "chain"
  THEN [h |-> parentObj.h, err |-> ErrParentNotCom]
  ELSE Bind(Put(parentObj.h, parentObj.val.v, memberNode.node[1].value, value,
                Ferr(fails, memberNode.value, ErrPut)),
            LAMBDA r : [h |-> r.h, err |-> Err(r.h, r.ret).err])

\* Put from the value of the member's operand on
putParent(parentObj, memberNode, value, fails) ==
  IF parentObj.err # NoErr THEN [h |-> parentObj.h, err |-> parentObj.err]
  ELSE IF parentObj.val.kind # "chain"
  THEN [h |-> parentObj.h, err |-> ErrParentNotCom]
  ELSE Bind(Put(parentObj.h, parentObj.val.v, memberNode.value, value,
                Ferr(fails, memberNode.value, ErrPut)),
            LAMBDA r : [h |-> r.h, err |-> Err(r.h, r.ret).err])

ExprPut(h, obj, expression, value, fails) ==
  IF ParseFails(expression) THEN [h |-> h, err |-> ErrParse]
  ELSE IF Parse(expression).kind # "Member" THEN [h |-> h, err |-> ErrInvalidPut]
  ELSE Bind(NewVisitor(h, obj),
            LAMBDA nv :
              Bind(eval(nv.h, nv.v, Parse(expression).node[1], fails),
                   LAMBDA parentObj : putParent(parentObj, Parse(expression), value, fails)))

\* ---- activations in progress: Do scopes and ForEach callbacks -------------------
DoFrame(c, nested) ==
  [kind |-> "do", ctx |-> c, nested |-> nested, recv |-> NIL, item |-> NIL,
   itemVar |-> NoResult, items |-> <<>>]

EachFrame(c, it) ==
  [kind |-> "each", ctx |-> NIL, nested |-> FALSE, recv |-> c, item |-> it.item,
   itemVar |-> it.itemVar, items |-> it.items]

\* ForEach as it would be going on after the callback asked to break
forEachResumeIgnoresBreak(h, f, cbErr) ==
  LET c  == f.recv
      h1 == IF h.chains[c].ctx = NIL THEN chainRelease(h, f.item).h ELSE h
      h2 == VariantClear(h1, f.itemVar)
  IN IF cbErr # NoErr /\ cbErr # ErrBreak
     THEN LET r == New(h2, MkChain(NIL, cbErr, NoResult, h2.chains[c].ctx, FALSE))
          IN Iter(r.h, r.ret, TRUE, NIL, NoResult, <<>>)
     ELSE forEachLoop(h2, c, f.items)

\* ForEach as it would be recording the break like any other error
forEachResumeRecordsBreak(h, f, cbErr) ==
  LET c  == f.recv
      h1 == IF h.chains[c].ctx = NIL THEN chainRelease(h, f.item).h ELSE h
      h2 == VariantClear(h1, f.itemVar)
  IN IF cbErr # NoErr
     THEN LET r == New(h2, MkChain(NIL, cbErr, NoResult, h2.chains[c].ctx, FALSE))
          IN Iter(r.h, r.ret, TRUE, NIL, NoResult, <<>>)
     ELSE forEachLoop(h2, c, f.items)

\* ForEach as it would be stopping on any error of the callback without
\* recording it
forEachResumeDropsError(h, f, cbErr) ==
  LET c  == f.recv
      h1 == IF h.chains[c].ctx = NIL THEN chainRelease(h, f.item).h ELSE h
      h2 == VariantClear(h1, f.itemVar)
  IN IF cbErr # NoErr
     THEN Iter(h2, c, TRUE, NIL, NoResult, <<>>)
     ELSE forEachLoop(h2, c, f.items)

\* ForEach from the return of a callback on
forEachResume(h, f, cbErr) ==
  LET c  == f.recv
      h1 == IF h.chains[c].ctx = NIL THEN chainRelease(h, f.item).h ELSE h
      h2 == VariantClear(h1, f.itemVar)
  IN IF cbErr # NoErr
     THEN IF cbErr # ErrBreak
          THEN LET r == New(h2, MkChain(NIL, cbErr, NoResult, h2.chains[c].ctx, FALSE))
               IN Iter(r.h, r.ret, TRUE, NIL, NoResult, <<>>)
          ELSE Iter(h2, c, TRUE, NIL, NoResult, <<>>)
     ELSE forEachLoop(h2, c, f.items)

\* a whole ForEach whose callback answers cb[1], cb[2], ... to its successive
\* invocations (nil once cb is used up) and does nothing else; seen: the
\* objects the callback was handed, in order
RECURSIVE Drive(_, _, _, _)
Drive(it, c, cb, seen) ==
  IF it.done THEN [h |-> it.h, ret |-> it.ret, seen |-> seen]
  ELSE Drive(forEachResume(it.h, EachFrame(c, it), IF cb = <<>> THEN NoErr ELSE Head(cb)),
             c, IF cb = <<>> THEN <<>> ELSE Tail(cb),
             Append(seen, it.h.chains[it.item].disp))

ForEachAll(h, c, items, cb) ==
  Drive(ForEach(h, c, "ok", items), c, cb, <<>>)

\* ---- Runner.Do -------------------------------------------------------------
\* r.parent.Value(activeSugarKey) != nil; NIL is a parent without the marker
IsActive(h, parent) ==
  parent \in 1..Len(h.arenas) /\ h.arenas[parent].active

\* <-parent.Done() does not block: the parent is a cancelled context of the
\* standard library, or an arena that embeds one
IsDone(h, parent) ==
  parent = CancelledCtx \/ (parent \in 1..Len(h.arenas) /\ h.arenas[parent].done)

\* Runner.Do as it would be unpinning only on the way out of a scope it entered
RunnerDoLeaksPin(h, parent, forceInit, initErr) ==
  LET isNested == ~forceInit /\ IsActive(h, parent) IN
  IF isNested
  THEN [h |-> NewContext(h, TRUE, IsDone(h, parent)), entered |-> TRUE, nested |-> TRUE, err |-> NoErr]
  ELSE IF initErr # NoErr
  THEN [h |-> Step(Step(h, "lock"), "initFail"),
        entered |-> FALSE, nested |-> FALSE, err |-> initErr]
  ELSE [h |-> NewContext(Step(Step(h, "lock"), "init"), TRUE, IsDone(h, parent)),
        entered |-> TRUE, nested |-> FALSE, err |-> NoErr]

\* Runner.Do as it would be initializing whatever marker the parent carries
RunnerDoIgnoresMarker(h, parent, forceInit, initErr) ==
  IF initErr # NoErr
  THEN [h |-> Step(Step(Step(h, "lock"), "initFail"), "unlock"),
        entered |-> FALSE, nested |-> FALSE, err |-> initErr]
  ELSE [h |-> NewContext(Step(Step(h, "lock"), "init"), TRUE, IsDone(h, parent)),
        entered |-> TRUE, nested |-> FALSE, err |-> NoErr]

\* Runner.Do as it would be returning without calling fn when its parent is
\* already cancelled
RunnerDoHonoursCancel(h, parent, forceInit, initErr) ==
  LET isNested == ~forceInit /\ IsActive(h, parent) IN
  IF IsDone(h, parent)
  THEN [h |-> h, entered |-> FALSE, nested |-> FALSE, err |-> "context canceled"]
  ELSE IF isNested
  THEN [h |-> NewContext(h, TRUE, IsDone(h, parent)), entered |-> TRUE, nested |-> TRUE, err |-> NoErr]
  ELSE IF initErr # NoErr
  THEN [h |-> Step(Step(Step(h, "lock"), "initFail"), "unlock"),
        entered |-> FALSE, nested |-> FALSE, err |-> initErr]
  ELSE [h |-> NewContext(Step(Step(h, "lock"), "init"), TRUE, IsDone(h, parent)),
        entered |-> TRUE, nested |-> FALSE, err |-> NoErr]

\* Runner.Do up to the invocation of fn: pins, initializes, creates the arena;
\* a failed initialization returns through the deferred unpin
RunnerDo(h, parent, forceInit, initErr) ==
  LET isNested == ~forceInit /\ IsActive(h, parent) IN
  IF isNested
  THEN [h |-> NewContext(h, TRUE, IsDone(h, parent)), entered |-> TRUE, nested |-> TRUE, err |-> NoErr]
  ELSE IF initErr # NoErr
  THEN [h |-> Step(Step(Step(h, "lock"), "initFail"), "unlock"),
        entered |-> FALSE, nested |-> FALSE, err |-> initErr]
  ELSE [h |-> NewContext(Step(Step(h, "lock"), "init"), TRUE, IsDone(h, parent)),
        entered |-> TRUE, nested |-> FALSE, err |-> NoErr]

\* the deferred calls of a Do that was not nested
Unwind(h, f) ==
  IF f.nested THEN h ELSE Step(Step(h, "uninit"), "unlock")

\* Runner.Do as it would be leaving the release of a nested scope's arena to
\* the enclosing scope
RunnerDoReturnSkipsNested(h, f, fnErr) ==
  IF f.nested
  THEN [h |-> h, err |-> fnErr]
  ELSE LET r == ContextRelease(h, f.ctx)
       IN [h |-> Unwind(Step(r.h, "release"), f),
           err |-> IF fnErr = NoErr THEN r.err ELSE fnErr]

\* Runner.Do as it would be with the release and the unwinding called after
\* fn instead of deferred: a panic skips them
RunnerDoReturnNoDefer(h, f, fnErr) ==
  IF fnErr = Panic
  THEN [h |-> h, err |-> Panic]
  ELSE LET r == ContextRelease(h, f.ctx)
       IN [h |-> Unwind(Step(r.h, "release"), f),
           err |-> IF fnErr = NoErr THEN r.err ELSE fnErr]

\* Runner.Do as it would be letting the release error replace that of fn
RunnerDoReturnReleaseErrWins(h, f, fnErr) ==
  LET r == ContextRelease(h, f.ctx)
  IN [h |-> Unwind(Step(r.h, "release"), f),
      err |-> IF r.err # NoErr THEN r.err ELSE fnErr]

\* Runner.Do as it would be releasing the arena only when fn succeeded
RunnerDoReturnOnSuccess(h, f, fnErr) ==
  IF fnErr = NoErr
  THEN LET r == ContextRelease(h, f.ctx)
       IN [h |-> Unwind(Step(r.h, "release"), f), err |-> r.err]
  ELSE [h |-> Unwind(h, f), err |-> fnErr]

\* Runner.Do as it would be with the arena's release deferred first, so that
\* it runs after the un-initialization and the unpin
RunnerDoReturnReleasesLast(h, f, fnErr) ==
  LET r == ContextRelease(Unwind(h, f), f.ctx)
  IN [h |-> Step(r.h, "release"),
      err |-> IF fnErr = NoErr THEN r.err ELSE fnErr]

\* Runner.Do as it would be dropping the error of the arena's release
RunnerDoReturnDropsReleaseErr(h, f, fnErr) ==
  LET r == ContextRelease(h, f.ctx)
  IN [h |-> Unwind(Step(r.h, "release"), f), err |-> fnErr]

\* Runner.Do from the return of fn on (fnErr: nil, an error, or Panic for a
\* panic leaving fn): the deferred release and error merge, then the deferred
\* un-initialization and unpin
RunnerDoReturn(h, f, fnErr) ==
  LET r == ContextRelease(h, f.ctx)
  IN [h |-> Unwind(Step(r.h, "release"), f),
      err |-> IF fnErr = NoErr THEN r.err ELSE fnErr]

\* Runner.Go as it would be without forceInit
RunnerGoInherits(h, parent, initErr) ==
  RunnerDo(h, parent, FALSE, initErr)

\* Runner.Go: Do with forced initialization, on a new goroutine
RunnerGo(h, parent, initErr) ==
  RunnerDo(h, parent, TRUE, initErr)

\* CoInitialize calls a Runner step made and did not undo, and the same for
\* LockOSThread
NetInit(h) ==
  Occ(h.steps, "init") - Occ(h.steps, "uninit")

NetLock(h) ==
  Occ(h.steps, "lock") - Occ(h.steps, "unlock")

\* ---- helpers of the actions --------------------------------------------------
RECURSIVE SumTo(_, _)
SumTo(n, f) ==
  IF n = 0 THEN 0 ELSE f[n] + SumTo(n - 1, f)

Range(seq) ==
  {seq[i] : i \in 1..Len(seq)}

Fits(h) ==
  /\ Len(h.chains) <= MaxChains
  /\ Len(h.arenas) <= MaxArenas
  /\ \A c \in 1..Len(h.arenas) : Len(h.arenas[c].chains) <= MaxTracked

Commit(h) ==
  /\ Fits(h)
  /\ chains' = h.chains
  /\ arenas' = h.arenas
  /\ acquired' = h.acquired
  /\ released' = h.released
  /\ stored' = h.stored
  /\ count' = h.count

ChainIds == 1..Len(chains)
ArenaIds == 1..Len(arenas)
\* what Do, Go and NewContext are given as parent: nil or Background, an
\* arena, or a context of the standard library that is already cancelled
Parents  == ArenaIds \cup {NIL, CancelledCtx}
Top      == frames[Len(frames)]
Thread   == <<frames, comInit, locked, gos>>

\* the caller keeps the chain an operation returned, or drops it at once; a new
\* chain that holds no reference, that the caller dropped and that no arena
\* tracks is unreachable and no longer part of the state
Returns(r, keep) ==
  LET droppable == /\ r.ret = Len(r.h.chains)
                   /\ r.ret > Len(chains)
                   /\ ~r.h.chains[r.ret].owns
                   /\ \A c \in 1..Len(r.h.arenas) : r.ret \notin Range(r.h.arenas[c].chains)
  IN /\ keep \/ droppable
     /\ Commit(IF keep THEN r.h ELSE [r.h EXCEPT !.chains = SubSeq(@, 1, Len(@) - 1)])

\* ---- actions: package-level constructors ------------------------------------
OpCreate ==
  \E disp \in Obj, err \in {NoErr, ErrCreate}, keep \in BOOLEAN :
    /\ err # NoErr => disp = 1
    /\ LET r == Create(Heap, disp, err)
       IN Returns(r, keep)
    /\ UNCHANGED Thread

OpGetActive ==
  \E disp \in Obj, err \in {NoErr, ErrGetActive}, keep \in BOOLEAN :
    /\ err # NoErr => disp = 1
    /\ LET r == GetActive(Heap, disp, err)
       IN Returns(r, keep)
    /\ UNCHANGED Thread

OpFrom ==
  \E disp \in Obj \cup {NIL}, keep \in BOOLEAN :
    /\ LET r == From(Heap, disp)
       IN Returns(r, keep)
    /\ UNCHANGED Thread

\* ---- actions: sugarContext ---------------------------------------------------
OpNewContext ==
  \E parent \in ArenaIds \cup {NIL} :
    LET h == NewContext(Heap, IsActive(Heap, parent), IsDone(Heap, parent))
    IN Commit(h)
       /\ UNCHANGED Thread

CtxTrack ==
  \E c \in ArenaIds, ch \in ChainIds :
    LET h == Track(Heap, c, ch)
    IN Commit(h)
       /\ UNCHANGED Thread

CtxCreate ==
  \E c \in ArenaIds, disp \in Obj, err \in {NoErr, ErrCreate} :
    /\ err # NoErr => disp = 1
    /\ LET r == Create(Heap, disp, err)
           h == Track(r.h, c, r.ret)
       IN Commit(h)
    /\ UNCHANGED Thread

CtxGetActive ==
  \E c \in ArenaIds, disp \in Obj, err \in {NoErr, ErrGetActive} :
    /\ err # NoErr => disp = 1
    /\ LET r == GetActive(Heap, disp, err)
           h == Track(r.h, c, r.ret)
       IN Commit(h)
    /\ UNCHANGED Thread

CtxFrom ==
  \E c \in ArenaIds, disp \in Obj \cup {NIL} :
    LET r == From(Heap, disp)
        h == Track(r.h, c, r.ret)
    IN Commit(h)
       /\ UNCHANGED Thread

CtxRelease ==
  \E c \in ArenaIds :
    LET r == ContextRelease(Heap, c)
    IN Commit(r.h)
       /\ UNCHANGED Thread

\* ---- actions: chain ----------------------------------------------------------
OpGet ==
  \E c \in ChainIds, prop \in {"Count", "Child"}, ferr \in {NoErr, ErrGet},
     keep \in BOOLEAN :
    /\ LET r == Get(Heap, c, prop, ferr)
       IN Returns(r, keep)
    /\ UNCHANGED Thread

OpCall ==
  \E c \in ChainIds, ferr \in {NoErr, ErrCall}, keep \in BOOLEAN :
    /\ LET r == Call(Heap, c, "Add", ferr)
       IN /\ \A o \in Obj : r.h.count[o] <= MaxCount
          /\ Returns(r, keep)
    /\ UNCHANGED Thread

OpPut ==
  \E c \in ChainIds, v \in 0..MaxCount, ferr \in {NoErr, ErrPut}, keep \in BOOLEAN :
    /\ ferr # NoErr => v = 0
    /\ LET r == Put(Heap, c, "Count", v, ferr)
       IN Returns(r, keep)
    /\ UNCHANGED Thread

OpFork ==
  \E c \in ChainIds, keep \in BOOLEAN :
    /\ LET r == Fork(Heap, c)
       IN Returns(r, keep)
    /\ UNCHANGED Thread

OpStore ==
  \E c \in ChainIds :
    LET r == Store(Heap, c)
    IN /\ SumTo(NObj, r.h.stored) <= MaxStored
       /\ Commit(r.h)
       /\ UNCHANGED Thread

OpRelease ==
  \E c \in ChainIds :
    LET r == chainRelease(Heap, c)
    IN Commit(r.h) /\ UNCHANGED Thread

\* the accessors Value and Err
OpValue ==
  \E c \in ChainIds :
    LET r == Value(Heap, c)
    IN Commit(r.h) /\ UNCHANGED Thread

OpErr ==
  \E c \in ChainIds :
    LET r == Err(Heap, c)
    IN Commit(r.h) /\ UNCHANGED Thread

\* ForEach is called: it runs to its first callback invocation, or returns
OpForEach ==
  \E c \in ChainIds, outcome \in {"ok", ErrNotObject, ErrGet}, n \in 0..MaxItems,
     keep \in BOOLEAN :
    \E items \in [1..n -> Obj \cup {NIL}] :
      /\ outcome # "ok" => n = 0
      /\ LET it == ForEach(Heap, c, outcome, items)
         IN IF it.done
            THEN Returns(it, keep) /\ frames' = frames
            ELSE /\ keep
                 /\ Len(frames) < MaxDepth
                 /\ Commit(it.h)
                 /\ frames' = Append(frames, EachFrame(c, it))
      /\ UNCHANGED <<comInit, locked, gos>>

\* the callback of the innermost ForEach returns: ForEach runs to the next
\* callback invocation, or returns
CallbackReturn ==
  /\ frames # <<>> /\ Top.kind = "each"
  /\ \E cbErr \in {NoErr, ErrBreak} \cup CallbackErrs, keep \in BOOLEAN :
       LET it == forEachResume(Heap, Top, cbErr)
       IN IF it.done
          THEN Returns(it, keep) /\ frames' = SubSeq(frames, 1, Len(frames) - 1)
          ELSE /\ keep
               /\ Commit(it.h)
               /\ frames' = [frames EXCEPT ![Len(frames)] = EachFrame(Top.recv, it)]
  /\ UNCHANGED <<comInit, locked, gos>>

\* ---- actions: package expression ------------------------------------------------
\* the environments a caller can pass: a chain it holds, a raw handle, a map
\* that names a chain it holds or a plain number
Envs ==
  {ChainEnv(c) : c \in ChainIds} \cup {HandleEnv(o) : o \in Obj}
    \cup {MapEnv("A" :> ChainVal(c)) : c \in ChainIds} \cup {MapEnv("A" :> IntVal(1))}

\* the names the foreign runtime refuses in one evaluation
Refusals == {{}, {"Count"}, {"Child"}, {"Add"}}

\* the expressions and refusals of the evaluations that act on the state
Evaluated == {"Count", "Child", "Child.Count", "Add()", "A.Count", "A.B(1,2).C"}
Refused == {{}, {"Count"}}

\* the chains an evaluation made and returns to nobody are out of the
\* program's reach; the references they hold stay counted. keep: the chain
\* that is returned, or NIL
Unreach(h, keep) ==
  IF \E a \in 1..Len(h.arenas) : \E k \in Range(h.arenas[a].chains) : k > Len(chains)
  THEN h
  ELSE [h EXCEPT !.chains = IF keep # NIL /\ keep > Len(chains)
                            THEN Append(chains, h.chains[keep])
                            ELSE SubSeq(h.chains, 1, Len(chains))]

Counted(h) ==
  \A o \in Obj : h.acquired[o] <= MaxAcquired /\ h.count[o] <= MaxCount

OpExprRun ==
  \E env \in Envs, expression \in Evaluated, fails \in Refused, keep \in BOOLEAN :
    /\ \E r \in {Eval(Heap, expression, env, fails)} :
          /\ Counted(r.h)
          /\ Commit(Unreach(r.h, IF keep /\ r.err = NoErr /\ r.val.kind = "chain"
                                 THEN r.val.v ELSE NIL))
    /\ UNCHANGED Thread

OpExprGet ==
  \E env \in Envs, expression \in Evaluated, fails \in Refused :
    /\ \E r \in {ExprGet(Heap, env, expression, fails)} :
         Counted(r.h) /\ Commit(Unreach(r.h, NIL))
    /\ UNCHANGED Thread

OpExprPut ==
  \E env \in Envs, expression \in Evaluated, fails \in Refused, v \in 0..MaxCount :
    /\ \E r \in {ExprPut(Heap, env, expression, v, fails)} :
         Counted(r.h) /\ Commit(Unreach(r.h, NIL))
    /\ UNCHANGED Thread

OpExprStore ==
  \E env \in Envs, expression \in Evaluated, fails \in Refused :
    /\ \E r \in {ExprStore(Heap, env, expression, fails)} :
         /\ Counted(r.h)
         /\ SumTo(NObj, r.h.stored) <= MaxStored
         /\ Commit(Unreach(r.h, NIL))
    /\ UNCHANGED Thread

\* ---- actions: Runner ---------------------------------------------------------
\* Do is called with parent NIL (sugar.Do, With(background).Do), with an
\* arena as parent (ctx.Do, With(ctx).Do) or with a context of the standard
\* library (With(stdCtx).Do); it runs up to the invocation of fn
DoEnterWith(parents) ==
  \E parent \in parents, initErr \in {NoErr, ErrInit} :
    LET r == RunnerDo(Heap, parent, FALSE, initErr)
    IN /\ r.nested => initErr = NoErr
       /\ Commit(r.h)
       /\ IF r.entered
          THEN /\ Len(frames) < MaxDepth
               /\ frames' = Append(frames, DoFrame(Len(r.h.arenas), r.nested))
          ELSE frames' = frames
       /\ comInit' = comInit + NetInit(r.h)
       /\ locked' = locked + NetLock(r.h)
       /\ UNCHANGED gos

\* Do with nil, Background or an arena as parent
DoEnter ==
  DoEnterWith(ArenaIds \cup {NIL})

\* Do with any parent, a cancelled context included
DoEnterAny ==
  DoEnterWith(Parents)

\* fn returns fnErr to the innermost Do, or panics; Do releases its arena and
\* returns
DoReturn ==
  /\ frames # <<>> /\ Top.kind = "do"
  /\ \E fnErr \in {NoErr, Panic} \cup CallbackErrs :
       LET r == RunnerDoReturn(Heap, Top, fnErr)
       IN /\ Commit(r.h)
          /\ comInit' = comInit + NetInit(r.h)
          /\ locked' = locked + NetLock(r.h)
  /\ frames' = SubSeq(frames, 1, Len(frames) - 1)
  /\ UNCHANGED gos

\* Go is called with parent NIL (sugar.Go) or with an arena as parent (ctx.Go):
\* the new goroutine runs Do up to the invocation of fn
GoEnter ==
  \E parent \in Parents, initErr \in {NoErr, ErrInit} :
    LET r == RunnerGo(Heap, parent, initErr)
    IN /\ Commit(r.h)
       /\ IF r.entered
          THEN /\ Len(gos) < MaxGos
               /\ gos' = Append(gos, [ctx |-> Len(r.h.arenas), parent |-> parent,
                                      comInit |-> NetInit(r.h), locked |-> NetLock(r.h)])
          ELSE gos' = gos
       /\ UNCHANGED <<frames, comInit, locked>>

\* fn returns on a goroutine started by Go, or panics; its Do releases the
\* arena and returns, and the goroutine ends
GoReturn ==
  \E g \in 1..Len(gos), fnErr \in {NoErr, Panic} \cup CallbackErrs :
    LET r == RunnerDoReturn(Heap, DoFrame(gos[g].ctx, FALSE), fnErr)
    IN /\ Commit(r.h)
       /\ gos' = SubSeq(gos, 1, g - 1) \o SubSeq(gos, g + 1, Len(gos))
       /\ UNCHANGED <<frames, comInit, locked>>

\* ---- specification -------------------------------------------------------------
Init ==
  /\ chains = <<>>
  /\ arenas = <<>>
  /\ acquired = [o \in Obj |-> 0]
  /\ released = [o \in Obj |-> 0]
  /\ stored = [o \in Obj |-> 0]
  /\ count = [o \in Obj |-> 0]
  /\ frames = <<>>
  /\ comInit = 0
  /\ locked = 0
  /\ gos = <<>>

Next ==
  \/ OpCreate \/ OpGetActive \/ OpFrom
  \/ OpNewContext \/ CtxTrack \/ CtxCreate \/ CtxGetActive \/ CtxFrom \/ CtxRelease
  \/ OpGet \/ OpCall \/ OpPut \/ OpFork \/ OpStore \/ OpRelease
  \/ OpValue \/ OpErr
  \/ OpForEach \/ CallbackReturn
  \/ DoEnter \/ DoReturn
  \/ GoEnter \/ GoReturn
  \/ OpExprRun \/ OpExprGet \/ OpExprPut \/ OpExprStore

Spec == Init /\ [][Next]_vars

\* chains used without any arena
NextChain ==
  \/ OpCreate \/ OpGetActive \/ OpFrom
  \/ OpGet \/ OpCall \/ OpPut \/ OpFork \/ OpStore \/ OpRelease
  \/ OpValue \/ OpErr
  \/ OpForEach \/ CallbackReturn

SpecChain == Init /\ [][NextChain]_vars

\* chains created, derived and tracked through arenas, and the arenas' release
NextArena ==
  \/ OpCreate \/ OpFrom
  \/ OpNewContext \/ CtxTrack \/ CtxCreate \/ CtxGetActive \/ CtxFrom \/ CtxRelease
  \/ OpGet \/ OpCall \/ OpFork
  \/ OpForEach \/ CallbackReturn

SpecArena == Init /\ [][NextArena]_vars

\* Do scopes and the chains of their arenas
NextDo ==
  \/ DoEnter \/ DoReturn
  \/ CtxCreate \/ CtxGetActive \/ CtxFrom \/ CtxTrack
  \/ OpGet \/ OpCall \/ OpPut \/ OpFork \/ OpRelease
  \/ OpForEach \/ CallbackReturn

SpecDo == Init /\ [][NextDo]_vars

\* Do scopes, goroutines started by Go, and the chains of their arenas
NextGo ==
  \/ DoEnter \/ DoReturn
  \/ GoEnter \/ GoReturn
  \/ CtxCreate \/ CtxGetActive
  \/ OpGet \/ OpFork

SpecGo == Init /\ [][NextGo]_vars

\* chains without arena and the expressions evaluated on them
NextExpr ==
  \/ OpCreate \/ OpGet \/ OpCall
  \/ OpExprRun \/ OpExprGet \/ OpExprPut

SpecExpr == Init /\ [][NextExpr]_vars

\* Do scopes, the chains of their arenas and the expressions evaluated in them
NextExprDo ==
  \/ DoEnter \/ DoReturn
  \/ CtxCreate
  \/ OpExprGet

SpecExprDo == Init /\ [][NextExprDo]_vars


\* ---- measures used by the properties ------------------------------------------
Reverse(seq) ==
  [i \in 1..Len(seq) |-> seq[Len(seq) + 1 - i]]

\* references on object o that chain record ch acquired and still holds
ChainRefs(ch, o) ==
  (IF ch.owns /\ ch.disp = o THEN 1 ELSE 0)
    + (IF ch.lastResult = Dispatch(o) THEN 1 ELSE 0)

RECURSIVE SumRefs(_, _, _)
SumRefs(h, ids, o) ==
  IF ids = {} THEN 0
  ELSE LET k == CHOOSE x \in ids : TRUE
       IN ChainRefs(h.chains[k], o) + SumRefs(h, ids \ {k}, o)

\* references on o owned by the chains arena c tracks
Owed(c, o) ==
  SumRefs(Heap, Range(arenas[c].chains), o)

\* a chain a Get, Call or Fork can work on
Live(c) ==
  chains[c].err = NoErr /\ chains[c].disp # NIL

\* the error the release of arena c has to return: that of the most recently
\* tracked chain carrying one
ExpectedErr(c) ==
  LET list    == arenas[c].chains
      failing == {i \in 1..Len(list) : chains[list[i]].err # NoErr}
  IN IF failing = {} THEN NoErr
     ELSE chains[list[CHOOSE i \in failing : \A j \in failing : j <= i]].err

\* ---- properties -----------------------------------------------------------------

\* C1: on every object, the releases the core has issued never exceed the
\* references the core acquired on it.
C1_NoDoubleRelease ==
  \A o \in Obj : released[o] <= acquired[o]

\* C2: releasing an arena issues, for every object, exactly as many foreign
\* releases as the chains it tracks own references on that object.
C2_ArenaReleasesExactlyOwned ==
  \A c \in ArenaIds :
    LET r == ContextRelease(Heap, c)
    IN \A o \in Obj : Occ(r.h.relLog, o) = Owed(c, o)

\* C3: Context.Release runs the Release of its tracked chains in exactly the
\* reverse of the order in which they were tracked.
C3_ReleaseIsLifo ==
  \A c \in ArenaIds :
    ContextRelease(Heap, c).h.order = Reverse(arenas[c].chains)

C3_Witness ==
  \E c \in ArenaIds :
    LET list == arenas[c].chains
    IN /\ Len(list) = 2
       /\ list[1] # list[2]
       /\ chains[list[1]].owns /\ chains[list[2]].owns
       /\ chains[list[1]].disp # NIL /\ chains[list[2]].disp # NIL
       /\ chains[list[1]].disp # chains[list[2]].disp
       /\ ContextRelease(Heap, c).h.order = <<list[2], list[1]>>
       /\ ContextRelease(Heap, c).h.relLog
            = <<chains[list[2]].disp, chains[list[1]].disp>>

\* C4: when the callback of an outermost Do returns, with or without an error,
\* no chain bound to that Do's arena holds a reference any more.
C4_DoReleasesEverything ==
  (frames # <<>> /\ Top.kind = "do" /\ ~Top.nested) =>
    \A fnErr \in {NoErr} \cup CallbackErrs :
      LET r == RunnerDoReturn(Heap, Top, fnErr)
      IN \A k \in 1..Len(r.h.chains) :
           r.h.chains[k].ctx = Top.ctx =>
             \A o \in Obj : ChainRefs(r.h.chains[k], o) = 0

C4_Witness ==
  /\ frames # <<>> /\ Top.kind = "do" /\ ~Top.nested
  /\ \E k \in ChainIds :
       /\ chains[k].ctx = Top.ctx
       /\ chains[k].lastResult.vt = "DISPATCH"
       /\ ChainRefs(chains[k], chains[k].disp) = 2
       /\ \A fnErr \in {NoErr} \cup CallbackErrs :
            LET r == RunnerDoReturn(Heap, Top, fnErr)
            IN /\ ChainRefs(r.h.chains[k], chains[k].disp) = 0
               /\ Occ(r.h.relLog, chains[k].disp) >= 2

\* C5: Get and Call on a chain that carries an error or has no handle invoke
\* nothing foreign and touch no reference; the chain they return is new and
\* carries the receiver's error unchanged, or the nil-handle error when the
\* receiver had none.
C5_ErroredChainShortCircuits ==
  \A c \in ChainIds :
    (chains[c].err # NoErr \/ chains[c].disp = NIL) =>
      \A ferr \in {NoErr, ErrGet, ErrCall}, prop \in {"Count", "Child"} :
        LET g == Get(Heap, c, prop, ferr)
            k == Call(Heap, c, "Add", ferr)
            e == IF chains[c].err # NoErr THEN chains[c].err ELSE ErrDispatchNil
        IN /\ g.h.calls = <<>> /\ k.h.calls = <<>>
           /\ g.h.acquired = acquired /\ k.h.acquired = acquired
           /\ g.h.released = released /\ k.h.released = released
           /\ g.h.count = count /\ k.h.count = count
           /\ g.ret = Len(chains) + 1 /\ k.ret = Len(chains) + 1
           /\ g.h.chains[g.ret].err = e /\ k.h.chains[k.ret].err = e
           /\ g.h.chains[c] = chains[c] /\ k.h.chains[c] = chains[c]

C5_Witness ==
  \E c, d \in ChainIds :
    /\ chains[c].err = ErrPut /\ chains[c].disp # NIL
    /\ chains[d].err = NoErr /\ chains[d].disp = NIL
    /\ Get(Heap, c, "Count", NoErr).h.chains[Len(chains) + 1].err = ErrPut
    /\ Call(Heap, d, "Add", NoErr).h.chains[Len(chains) + 1].err = ErrDispatchNil
    /\ Get(Heap, c, "Count", NoErr).h.calls = <<>>

\* C6: Get, Call and Fork return a chain other than the receiver and leave the
\* receiver as it was, so the receiver still addresses its own object: Call
\* "Add" twice on a chain and then Get "Count" on it reads the count of the
\* receiver's object, raised by two.
C6_ReceiverUnchanged ==
  \A c \in ChainIds :
    /\ \A ferr \in {NoErr, ErrGet}, prop \in {"Count", "Child"} :
         LET g == Get(Heap, c, prop, ferr)
         IN g.ret = Len(chains) + 1 /\ g.h.chains[c] = chains[c]
    /\ \A ferr \in {NoErr, ErrCall} :
         LET k == Call(Heap, c, "Add", ferr)
         IN k.ret = Len(chains) + 1 /\ k.h.chains[c] = chains[c]
    /\ LET f == Fork(Heap, c)
       IN f.ret = Len(chains) + 1 /\ f.h.chains[c] = chains[c]
    /\ Live(c) =>
         LET a1 == Call(Heap, c, "Add", NoErr)
             a2 == Call(a1.h, c, "Add", NoErr)
             g  == Get(a2.h, c, "Count", NoErr)
         IN /\ g.h.chains[g.ret].lastResult = Scalar(count[chains[c].disp] + 2)
            /\ g.h.chains[c] = chains[c]
            /\ g.ret = Len(chains) + 3

C6_Witness ==
  \E c \in ChainIds :
    /\ Live(c) /\ chains[c].owns
    /\ count[chains[c].disp] = 0
    /\ LET a1 == Call(Heap, c, "Add", NoErr)
           a2 == Call(a1.h, c, "Add", NoErr)
           g  == Get(a2.h, c, "Count", NoErr)
       IN /\ g.h.chains[g.ret].lastResult = Scalar(2)
          /\ a1.h.chains[a1.ret].disp # chains[c].disp

\* C7: Release on a chain that did not acquire the handle it holds issues no
\* foreign release.
C7_BorrowerNeverReleases ==
  \A c \in ChainIds :
    ~chains[c].owns => chainRelease(Heap, c).h.relLog = <<>>

\* C8: a second Release on a chain issues no foreign release, returns no error
\* and leaves the chain as the first Release left it.
C8_ChainReleaseIdempotent ==
  \A c \in ChainIds :
    LET r1 == chainRelease(Heap, c)
        r2 == chainRelease(r1.h, c)
    IN /\ r2.h.relLog = r1.h.relLog
       /\ r2.h.released = r1.h.released
       /\ r2.err = NoErr
       /\ r2.h.chains = r1.h.chains

C8_Witness ==
  \E c, d \in ChainIds :
    /\ chains[c].owns /\ chains[c].disp = NIL /\ chains[c].err = NoErr
    /\ released[1] + released[2] > 0
    /\ chainRelease(Heap, c).h.relLog = <<>>
    /\ chains[d].owns /\ chains[d].disp # NIL
    /\ chainRelease(Heap, d).h.relLog # <<>>
    /\ chainRelease(chainRelease(Heap, d).h, d).h.relLog
         = chainRelease(Heap, d).h.relLog

\* C9: Context.Release leaves the arena with no tracked chain, and a further
\* Context.Release issues no foreign release, changes no chain and returns no
\* error.
C9_ContextReleaseIdempotent ==
  \A c \in ArenaIds :
    LET r1 == ContextRelease(Heap, c)
        r2 == ContextRelease(r1.h, c)
    IN /\ r1.h.arenas[c].chains = <<>>
       /\ r2.h.relLog = r1.h.relLog
       /\ r2.h.order = r1.h.order
       /\ r2.h.chains = r1.h.chains
       /\ r2.h.arenas = r1.h.arenas
       /\ r2.err = NoErr

C9_Witness ==
  \E c, d \in ArenaIds :
    /\ arenas[c].isNil
    /\ \E k \in ChainIds : chains[k].ctx = c /\ chains[k].owns /\ chains[k].disp = NIL
    /\ ContextRelease(Heap, c).h.relLog = <<>>
    /\ \E k \in Range(arenas[d].chains) : chains[k].owns /\ chains[k].disp # NIL
    /\ ContextRelease(Heap, d).h.relLog # <<>>
    /\ ContextRelease(ContextRelease(Heap, d).h, d).h.relLog
         = ContextRelease(Heap, d).h.relLog

\* C10: Context.Release runs the Release of every tracked chain whatever errors
\* they report, and returns the error of the most recently tracked chain that
\* carries one, nil exactly when none does.
C10_ReleaseAllFirstError ==
  \A c \in ArenaIds :
    LET r == ContextRelease(Heap, c)
    IN /\ Len(r.h.order) = Len(arenas[c].chains)
       /\ Range(r.h.order) = Range(arenas[c].chains)
       /\ r.err = ExpectedErr(c)
       /\ (r.err = NoErr <=> \A k \in Range(arenas[c].chains) : chains[k].err = NoErr)

C10_Witness ==
  \E c \in ArenaIds :
    LET list == arenas[c].chains
    IN /\ Len(list) = 2
       /\ chains[list[1]].err # NoErr
       /\ chains[list[2]].err # NoErr
       /\ chains[list[1]].err # chains[list[2]].err
       /\ ContextRelease(Heap, c).err = chains[list[2]].err
       /\ Len(ContextRelease(Heap, c).h.order) = 2


\* the Do scope enclosing the innermost one
Outer ==
  frames[Len(frames) - 1]

\* a Do entered through the Context of the Do scope that encloses it
InNestedDo ==
  /\ Len(frames) >= 2
  /\ Top.kind = "do" /\ Top.nested
  /\ Outer.kind = "do"

\* arena c tracks only chains that acquired the handle they hold
OwnersOnly(c) ==
  \A k \in Range(arenas[c].chains) : chains[k].disp # NIL => chains[k].owns

\* C11: when a nested Do returns, every chain bound to the nested arena has
\* given up its references, while the chains the outer arena tracks and the
\* nested arena does not are left as they were, and no reference of theirs is
\* released.
C11_NestedReleasedOuterKept ==
  InNestedDo =>
    \A fnErr \in {NoErr, Panic} \cup CallbackErrs :
      LET r == RunnerDoReturn(Heap, Top, fnErr)
      IN /\ \A k \in ChainIds :
              chains[k].ctx = Top.ctx =>
                \A o \in Obj : ChainRefs(r.h.chains[k], o) = 0
         /\ \A k \in Range(arenas[Outer.ctx].chains) :
              k \notin Range(arenas[Top.ctx].chains) => r.h.chains[k] = chains[k]
         /\ r.h.arenas[Outer.ctx] = arenas[Outer.ctx]
         /\ OwnersOnly(Top.ctx) =>
              \A o \in Obj : Occ(r.h.relLog, o) = Owed(Top.ctx, o)

C11_Witness ==
  /\ InNestedDo
  /\ \E k, m \in ChainIds :
       /\ k \in Range(arenas[Top.ctx].chains) /\ chains[k].ctx = Top.ctx
       /\ chains[k].owns /\ chains[k].disp # NIL
       /\ m \in Range(arenas[Outer.ctx].chains) /\ chains[m].ctx = Outer.ctx
       /\ chains[m].owns /\ chains[m].disp = chains[k].disp
       /\ LET r == RunnerDoReturn(Heap, Top, NoErr)
          IN /\ r.h.chains[k].disp = NIL
             /\ r.h.chains[m] = chains[m]
             /\ r.h.relLog = <<chains[k].disp>>

\* C12: when the callback of a nested Do derives objects from a chain of the
\* outer scope (Get, then Call on the result) without tracking them itself,
\* the derived chains hold no reference once the nested Do has returned, and
\* the outer chain is as it was.
C12_DerivedReleasedAtNestedEnd ==
  InNestedDo =>
    \A c \in Range(arenas[Outer.ctx].chains) :
      (Live(c) /\ chains[c].ctx = Outer.ctx) =>
        LET g == Get(Heap, c, "Child", NoErr)
            a == Call(g.h, g.ret, "Add", NoErr)
            r == RunnerDoReturn(a.h, Top, NoErr)
        IN /\ \A o \in Obj : ChainRefs(r.h.chains[g.ret], o) = 0
           /\ \A o \in Obj : ChainRefs(r.h.chains[a.ret], o) = 0
           /\ r.h.chains[c] = chains[c]

\* Do scopes in progress on the caller's thread that were entered without
\* the marker of an enclosing scope
NonNested ==
  Cardinality({i \in 1..Len(frames) : frames[i].kind = "do" /\ ~frames[i].nested})

\* C13: a Do started from a Context that carries the marker of an active scope
\* neither pins the thread nor initializes the runtime, and its return neither
\* unpins nor un-initializes, at any depth; a Do started without the marker
\* does each once; so the pins and initializations in force on the thread are
\* those of the scopes entered without the marker, one when the scopes in
\* progress were all nested through the outermost one's Context.
C13_OutermostInitializesOnly ==
  /\ comInit = NonNested /\ locked = NonNested
  /\ \A parent \in ArenaIds \cup {NIL} :
       LET r == RunnerDo(Heap, parent, FALSE, NoErr)
       IN /\ r.nested = IsActive(Heap, parent)
          /\ r.h.steps = IF IsActive(Heap, parent) THEN <<>> ELSE <<"lock", "init">>
          /\ r.entered
  /\ (frames # <<>> /\ Top.kind = "do") =>
       \A fnErr \in {NoErr, Panic} \cup CallbackErrs :
         LET r == RunnerDoReturn(Heap, Top, fnErr)
         IN r.h.steps = IF Top.nested THEN <<"release">>
                        ELSE <<"release", "uninit", "unlock">>
  /\ (frames # <<>> /\ frames[1].kind = "do" /\ ~frames[1].nested
        /\ \A i \in 2..Len(frames) : frames[i].kind = "do" => frames[i].nested) =>
       comInit = 1 /\ locked = 1

C13_Witness ==
  /\ Len(frames) = 2
  /\ frames[1].kind = "do" /\ ~frames[1].nested
  /\ Top.kind = "do" /\ Top.nested
  /\ comInit = 1 /\ locked = 1
  /\ RunnerDo(Heap, Top.ctx, FALSE, NoErr).h.steps = <<>>
  /\ RunnerDoReturn(Heap, Top, NoErr).h.steps = <<"release">>

C15_InitFailure ==
  \A parent \in ArenaIds \cup {NIL}, forceInit \in BOOLEAN :
    (forceInit \/ ~IsActive(Heap, parent)) =>
      LET r == RunnerDo(Heap, parent, forceInit, ErrInit)
      IN /\ r.err = ErrInit
         /\ ~r.entered
         /\ r.h.arenas = arenas /\ r.h.chains = chains
         /\ r.h.relLog = <<>> /\ r.h.order = <<>>
         /\ r.h.steps = <<"lock", "initFail", "unlock">>
         /\ NetLock(r.h) = 0 /\ NetInit(r.h) = 0

C15_Witness ==
  /\ frames = <<>> /\ locked = 0 /\ comInit = 0
  /\ \E c \in ArenaIds, k \in ChainIds :
       /\ k \in Range(arenas[c].chains)
       /\ chains[k].owns /\ chains[k].disp # NIL
  /\ LET r == RunnerDo(Heap, NIL, FALSE, ErrInit)
     IN /\ r.err = ErrInit /\ ~r.entered
        /\ r.h.steps = <<"lock", "initFail", "unlock">>

\* C16: Do returns the error of fn whenever fn returned one, whatever the
\* release of the arena reports, and the error of the arena release when fn
\* returned none; the arena is released in both cases.
C16_CallbackErrorWins ==
  (frames # <<>> /\ Top.kind = "do") =>
    \A fnErr \in {NoErr} \cup CallbackErrs :
      LET r   == RunnerDoReturn(Heap, Top, fnErr)
          rel == ContextRelease(Heap, Top.ctx)
      IN /\ fnErr # NoErr => r.err = fnErr
         /\ fnErr = NoErr => r.err = ExpectedErr(Top.ctx)
         /\ r.h.order = Reverse(arenas[Top.ctx].chains)
         /\ r.h.arenas[Top.ctx].chains = <<>>
         /\ r.h.chains = rel.h.chains

C16_Witness ==
  /\ frames # <<>> /\ Top.kind = "do"
  /\ \E k \in Range(arenas[Top.ctx].chains) :
       /\ chains[k].err = ErrCreate
       /\ \E cb \in CallbackErrs :
            /\ RunnerDoReturn(Heap, Top, cb).err = cb
            /\ RunnerDoReturn(Heap, Top, cb).h.chains[k].err = NoErr
       /\ RunnerDoReturn(Heap, Top, NoErr).err = ErrCreate

\* C17: however fn leaves a Do, by returning nil, by returning an error or by
\* panicking, the Release of every chain the arena tracks runs, the tracked
\* list is cleared and none of those chains holds a handle any more; a Do
\* that pinned and initialized also un-initializes and unpins, a nested Do
\* does neither.
C17_ReleasedOnEveryExit ==
  (frames # <<>> /\ Top.kind = "do") =>
    \A fnErr \in {NoErr, Panic} \cup CallbackErrs :
      LET r == RunnerDoReturn(Heap, Top, fnErr)
      IN /\ r.h.order = Reverse(arenas[Top.ctx].chains)
         /\ r.h.arenas[Top.ctx].chains = <<>>
         /\ r.h.arenas[Top.ctx].isNil
         /\ \A k \in Range(arenas[Top.ctx].chains) :
              r.h.chains[k].disp = NIL /\ r.h.chains[k].lastResult = NoResult
         /\ r.h.steps = IF Top.nested THEN <<"release">>
                        ELSE <<"release", "uninit", "unlock">>
         /\ ~Top.nested => NetInit(r.h) = -1 /\ NetLock(r.h) = -1

C17_Witness ==
  /\ frames # <<>> /\ Top.kind = "do" /\ ~Top.nested
  /\ comInit = 1 /\ locked = 1
  /\ \E k \in Range(arenas[Top.ctx].chains) :
       /\ chains[k].owns /\ chains[k].disp # NIL
       /\ LET r == RunnerDoReturn(Heap, Top, Panic)
          IN /\ r.err = Panic
             /\ r.h.chains[k].disp = NIL
             /\ r.h.relLog # <<>>
             /\ r.h.steps = <<"release", "uninit", "unlock">>

\* C18: after Release has run on a chain, Get, Call, Put, ForEach, Fork and
\* Store on it each report an error (on the chain they return, or as Store's
\* error) and make no foreign invocation and no reference change.
C18_ReleasedChainIsTerminal ==
  \A c \in ChainIds :
    LET h  == [chainRelease(Heap, c).h EXCEPT !.relLog = <<>>, !.order = <<>>]
        g  == Get(h, c, "Count", NoErr)
        k  == Call(h, c, "Add", NoErr)
        p  == Put(h, c, "Count", 0, NoErr)
        e  == ForEach(h, c, "ok", <<>>)
        f  == Fork(h, c)
        s  == Store(h, c)
    IN /\ g.h.chains[g.ret].err # NoErr /\ g.h.calls = <<>>
       /\ k.h.chains[k.ret].err # NoErr /\ k.h.calls = <<>>
       /\ f.h.chains[f.ret].err # NoErr /\ f.h.calls = <<>>
       /\ s.err # NoErr /\ s.disp = NIL /\ s.h.calls = <<>>
       /\ p.h.calls = <<>> /\ e.h.calls = <<>>
       /\ \A r \in {g, k, p, e, f} :
            r.h.acquired = h.acquired /\ r.h.released = h.released
       /\ p.h.chains[p.ret].err # NoErr
       /\ e.h.chains[e.ret].err # NoErr

\* the reference count of object o as far as the core changed it
RefCount(h, o) ==
  h.acquired[o] + h.stored[o] - h.released[o]

\* c is the one chain tracked by arena a that holds object o
SoleHolder(a, c, o) ==
  /\ c \in Range(arenas[a].chains)
  /\ \A k \in Range(arenas[a].chains) \ {c} :
       chains[k].disp # o /\ chains[k].lastResult # Dispatch(o)

\* C19: Store on a chain without error that holds a handle returns that
\* handle with no error and adds exactly one reference to its object; the
\* chain, the arenas and every other count are unchanged, so the chain is
\* still tracked and its arena's release still releases it: after that
\* release and one release by the caller the object's count is what it was
\* before the chain acquired its references.
C19_StoreAddsOneReference ==
  \A c \in ChainIds :
    Live(c) =>
      LET o == chains[c].disp
          s == Store(Heap, c)
      IN /\ s.err = NoErr /\ s.disp = o
         /\ s.h.stored = [stored EXCEPT ![o] = @ + 1]
         /\ s.h.acquired = acquired /\ s.h.released = released
         /\ s.h.chains = chains /\ s.h.arenas = arenas
         /\ s.h.calls = <<>> /\ s.h.relLog = <<>>
         /\ \A a \in ArenaIds :
              (chains[c].owns /\ SoleHolder(a, c, o)) =>
                LET r == ContextRelease(s.h, a)
                IN /\ c \in Range(r.h.order)
                   /\ r.h.chains[c].disp = NIL
                   /\ Occ(r.h.relLog, o) = ChainRefs(chains[c], o)
                   /\ RefCount(r.h, o) - 1 = RefCount(Heap, o) - ChainRefs(chains[c], o)

C19_Witness ==
  \E c \in ChainIds, a \in ArenaIds :
    /\ Live(c) /\ chains[c].owns /\ chains[c].ctx = a
    /\ SoleHolder(a, c, chains[c].disp)
    /\ RefCount(Heap, chains[c].disp) = 1
    /\ LET s == Store(Heap, c)
           r == ContextRelease(s.h, a)
       IN /\ s.disp = chains[c].disp
          /\ RefCount(s.h, chains[c].disp) = 2
          /\ RefCount(r.h, chains[c].disp) = 1
          /\ r.h.relLog = <<chains[c].disp>>

\* C20: Fork on a chain without error that holds a handle adds exactly one
\* reference to its object, held by a new chain on the same object, which is
\* appended to the receiver's arena when it has one and to no arena
\* otherwise; Release on the fork gives back that one reference and leaves
\* the receiver as it was, and Release on the receiver leaves the fork as it
\* was, giving back what the receiver owned.
C20_ForkIsIndependent ==
  \A c \in ChainIds :
    Live(c) =>
      LET o  == chains[c].disp
          f  == Fork(Heap, c)
          n  == f.ret
          rf == chainRelease(f.h, n)
          rc == chainRelease(f.h, c)
      IN /\ n = Len(chains) + 1
         /\ f.h.chains[n] = MkChain(o, NoErr, NoResult, chains[c].ctx, TRUE)
         /\ f.h.acquired = [acquired EXCEPT ![o] = @ + 1]
         /\ f.h.released = released /\ f.h.calls = <<>>
         /\ f.h.chains[c] = chains[c]
         /\ f.h.arenas = IF chains[c].ctx = NIL THEN arenas
                         ELSE [arenas EXCEPT ![chains[c].ctx].chains = Append(@, n),
                                             ![chains[c].ctx].isNil = FALSE]
         /\ rf.h.relLog = <<o>> /\ rf.err = NoErr
         /\ rf.h.chains[c] = chains[c]
         /\ rf.h.chains[n].disp = NIL
         /\ rc.h.chains[n] = f.h.chains[n]
         /\ chains[c].owns =>
              \A x \in Obj : Occ(rc.h.relLog, x) = ChainRefs(chains[c], x)

C20_Witness ==
  \E c \in ChainIds :
    /\ Live(c) /\ chains[c].owns /\ chains[c].ctx # NIL
    /\ c \in Range(arenas[chains[c].ctx].chains)
    /\ LET f == Fork(Heap, c)
       IN /\ f.h.arenas[chains[c].ctx].chains
               = Append(arenas[chains[c].ctx].chains, f.ret)
          /\ chainRelease(f.h, f.ret).h.relLog = <<chains[c].disp>>
          /\ Live(c)
          /\ chainRelease(f.h, c).h.chains[f.ret].disp = chains[c].disp
    /\ \E d \in ChainIds :
         /\ d # c /\ chains[d].owns /\ chains[d].disp = chains[c].disp
         /\ chains[d].lastResult = NoResult /\ chains[d].ctx = chains[c].ctx

\* C21: Value on a chain with an error returns that error and no value; on a
\* chain whose last result is an object reference it returns an error and no
\* value; otherwise it returns the cached scalar (nothing when none is
\* cached) and no error; what it returns is never an object reference, and
\* it changes nothing.
C21_ValueNeverHandsOutHandle ==
  \A c \in ChainIds :
    LET ch == chains[c]
        v  == Value(Heap, c)
    IN /\ ch.err # NoErr => (v.err = ch.err /\ v.val = NoResult)
       /\ (ch.err = NoErr /\ ch.lastResult.vt = "DISPATCH") =>
            (v.err = ErrIsDispatch /\ v.val = NoResult)
       /\ (ch.err = NoErr /\ ch.lastResult.vt # "DISPATCH") =>
            (v.err = NoErr /\ v.val = ch.lastResult)
       /\ v.val.vt # "DISPATCH"
       /\ v.h = Heap

C21_Witness ==
  \E c, d \in ChainIds :
    /\ chains[c].err = NoErr /\ chains[c].lastResult.vt = "DISPATCH"
    /\ chains[c].disp # NIL
    /\ Value(Heap, c).err = ErrIsDispatch /\ Value(Heap, c).val = NoResult
    /\ chains[d].err = NoErr /\ chains[d].lastResult = NoResult
    /\ Value(Heap, d).err = NoErr /\ Value(Heap, d).val = NoResult

\* C22: a failed Create or GetActive returns a chain that carries the error
\* and no handle, and acquires nothing; Release on it issues no foreign
\* release and returns that error; tracked by an arena, it adds no foreign
\* release to the arena's release, which returns that error.
C22_FailedCreateIsHarmless ==
  \A disp \in Obj :
    LET r == Create(Heap, disp, ErrCreate)
        g == GetActive(Heap, disp, ErrGetActive)
    IN /\ r.h.chains[r.ret] = MkChain(NIL, ErrCreate, NoResult, NIL, FALSE)
       /\ g.h.chains[g.ret] = MkChain(NIL, ErrGetActive, NoResult, NIL, FALSE)
       /\ r.h.acquired = acquired /\ g.h.acquired = acquired
       /\ chainRelease(r.h, r.ret).h.relLog = <<>>
       /\ chainRelease(r.h, r.ret).err = ErrCreate
       /\ chainRelease(g.h, g.ret).h.relLog = <<>>
       /\ chainRelease(g.h, g.ret).err = ErrGetActive
       /\ \A a \in ArenaIds :
            LET cr == ContextRelease(Track(r.h, a, r.ret), a)
                cg == ContextRelease(Track(g.h, a, g.ret), a)
                c0 == ContextRelease(Heap, a)
            IN /\ cr.h.relLog = c0.h.relLog /\ cg.h.relLog = c0.h.relLog
               /\ cr.err = ErrCreate /\ cg.err = ErrGetActive
               /\ r.ret \in Range(cr.h.order) /\ g.ret \in Range(cg.h.order)

C22_Witness ==
  \E a \in ArenaIds, k, m \in ChainIds :
    /\ arenas[a].chains = <<m, k>>
    /\ chains[k] = MkChain(NIL, ErrCreate, NoResult, a, FALSE)
    /\ chains[m].owns /\ chains[m].disp # NIL
    /\ ContextRelease(Heap, a).err = ErrCreate
    /\ ContextRelease(Heap, a).h.relLog = <<chains[m].disp>>
    /\ chainRelease(Heap, k).h.relLog = <<>>
    /\ chainRelease(Heap, k).err = ErrCreate

\* ---- ForEach as a whole ---------------------------------------------------------
\* what the enumerator of a collection yields: NIL is an element that is not an
\* object
Collections ==
  UNION {[1..n -> Obj \cup {NIL}] : n \in 0..MaxEnum}

ObjectsOf(items) ==
  SelectSeq(items, LAMBDA x : x # NIL)

\* the answers of a callback that continues K - 1 times and then breaks
BreakAt(K) ==
  [i \in 1..K |-> IF i = K THEN ErrBreak ELSE NoErr]

\* C23 (as stated): ForEach over a collection of N elements invokes the
\* callback exactly N times, once per element in the enumeration order, when
\* the callback always continues, and exactly K times when the callback
\* breaks at its K-th invocation.
C23_OncePerElement ==
  \A c \in ChainIds : Live(c) =>
    \A items \in Collections :
      /\ ForEachAll(Heap, c, items, <<>>).seen = items
      /\ \A K \in 1..Len(items) :
           ForEachAll(Heap, c, items, BreakAt(K)).seen = SubSeq(items, 1, K)

\* C23 (amended): ForEach invokes the callback once per element that is an
\* object, in the enumeration order, and skips the elements that are not
\* objects: N times for a collection with N object elements when the
\* callback always continues, and exactly K times, on the first K object
\* elements, when the callback breaks at its K-th invocation.
C23_OncePerObjectElement ==
  \A c \in ChainIds : Live(c) =>
    \A items \in Collections :
      /\ ForEachAll(Heap, c, items, <<>>).seen = ObjectsOf(items)
      /\ \A K \in 1..Len(ObjectsOf(items)) :
           ForEachAll(Heap, c, items, BreakAt(K)).seen = SubSeq(ObjectsOf(items), 1, K)

C23_Witness ==
  \E c \in ChainIds, o, p \in Obj :
    /\ Live(c) /\ o # p
    /\ ForEachAll(Heap, c, <<o, p, o>>, <<>>).seen = <<o, p, o>>
    /\ ForEachAll(Heap, c, <<o, p, o>>, BreakAt(2)).seen = <<o, p>>
    /\ ForEachAll(Heap, c, <<o, NIL, p>>, <<>>).seen = <<o, p>>
    /\ frames # <<>> /\ Top.kind = "each" /\ Top.recv = c

\* C24: when the callback returns ErrBreak the iteration stops there, whatever
\* is left to enumerate, and no error is recorded: ForEach returns its
\* receiver, whose Err() is nil.
C24_PlainBreakRecordsNothing ==
  /\ (frames # <<>> /\ Top.kind = "each") =>
       LET it == forEachResume(Heap, Top, ErrBreak)
       IN it.done /\ it.ret = Top.recv /\ Err(it.h, it.ret).err = NoErr
  /\ \A c \in ChainIds : Live(c) =>
       \A items \in Collections : \A K \in 1..Len(ObjectsOf(items)) :
         LET r == ForEachAll(Heap, c, items, BreakAt(K))
         IN /\ r.ret = c /\ Err(r.h, r.ret).err = NoErr
            /\ Len(r.seen) = K
            /\ r.h.chains[c] = chains[c]

C24_Witness ==
  /\ frames # <<>> /\ Top.kind = "each"
  /\ forEachResume(Heap, Top, ErrBreak).ret = Top.recv
  /\ Err(forEachResume(Heap, Top, ErrBreak).h, Top.recv).err = NoErr
  /\ \E o, p \in Obj :
       LET r == ForEachAll(Heap, Top.recv, <<o, p, o>>, BreakAt(1))
       IN r.seen = <<o>> /\ r.ret = Top.recv /\ Err(r.h, r.ret).err = NoErr

\* the errors a callback may return other than the plain break
RecordedErrs == CallbackErrs \cup BreakErrs

\* the answers of a callback that continues K - 1 times and then fails with e
FailAt(K, e) ==
  [i \in 1..K |-> IF i = K THEN e ELSE NoErr]

CallbackOutcomes == {NoErr, ErrBreak} \cup RecordedErrs

\* the arenas that track chain i
TrackedBy(i) ==
  {a \in ArenaIds : i \in Range(arenas[a].chains)}

\* the references on object o that the chains tracked by arena a hold, each
\* chain counted once
Holdings(a, o) ==
  LET tracked == Range(arenas[a].chains)
  IN Cardinality({k \in tracked : chains[k].disp = o})
       + Cardinality({k \in tracked : chains[k].lastResult = Dispatch(o)})

\* C26: ForEach hands each object element to the callback as a new chain that
\* owns one added reference; when the receiver has an arena the element's
\* chain is registered with it, is left alone when the callback returns and
\* is released by the arena's release; when the receiver has none the
\* element's chain is released as soon as the callback returns, whether the
\* callback continues, breaks or fails. Either way the element's chain issues
\* one foreign release, and the reference held by the enumerated value is
\* released once when the callback returns.
C26_ElementReleasedOnce ==
  /\ \A c \in ChainIds : Live(c) =>
       \A items \in Collections : ObjectsOf(items) # <<>> =>
         LET it == ForEach(Heap, c, "ok", items)
             o  == Head(ObjectsOf(items))
             a  == chains[c].ctx
         IN /\ ~it.done /\ it.item = Len(chains) + 1
            /\ it.h.chains[it.item] = MkChain(o, NoErr, NoResult, a, TRUE)
            /\ it.itemVar = Dispatch(o)
            /\ it.h.acquired[o] = acquired[o] + 2
            /\ it.h.relLog = <<>>
            /\ a # NIL => it.h.arenas[a].chains = Append(arenas[a].chains, it.item)
            /\ a = NIL => it.h.arenas = arenas
  /\ (frames # <<>> /\ Top.kind = "each") =>
       LET f == Top
           i == f.item
           o == f.itemVar.val
           held == IF chains[i].disp # NIL THEN 1 ELSE 0
       IN /\ f.itemVar.vt = "DISPATCH" /\ chains[i].disp \in {NIL, o}
          /\ \A cbErr \in CallbackOutcomes :
               LET it == forEachResume(Heap, f, cbErr) IN
               IF chains[f.recv].ctx = NIL
               THEN /\ it.h.chains[i].disp = NIL
                    /\ Occ(it.h.order, i) = 1
                    /\ Occ(it.h.relLog, o) = held + 1
               ELSE /\ it.h.chains[i] = chains[i]
                    /\ Occ(it.h.order, i) = 0
                    /\ Occ(it.h.relLog, o) = 1
                    /\ held = 1 => TrackedBy(i) # {}
                    /\ \A a \in TrackedBy(i) :
                         LET r == ContextRelease(it.h, a)
                         IN /\ r.h.chains[i].disp = NIL
                            /\ i \in Range(r.h.order)
                            /\ Occ(r.h.relLog, o) = 1 + Holdings(a, o)
                            /\ ContextRelease(r.h, a).h.relLog = r.h.relLog

\* C27: after a successful Put on a chain without error that holds a handle,
\* Value on the chain Put returns yields no value, whatever scalar an earlier
\* Get or Call had cached on the receiver.
C27_PutClearsCachedScalar ==
  \A c \in ChainIds, v \in 0..MaxCount : Live(c) =>
    LET r == Put(Heap, c, "Count", v, NoErr)
    IN Value(r.h, r.ret).val = NoResult

\* C28: expression.Put on an expression that parses and whose top node is not
\* a member access (a call such as "Add()" or "Child.Add()", a bare
\* identifier, a literal) fails with the invalid-Put-expression error and
\* evaluates nothing: no foreign get, call or put is issued, no chain is made
\* and no reference is acquired, whatever the environment.
C28_PutRejectsNonMember ==
  \A obj \in Envs, expression \in Expressions, v \in 0..MaxCount, fails \in Refusals :
    (~ParseFails(expression) /\ Parse(expression).kind # "Member") =>
      \A r \in {ExprPut(Heap, obj, expression, v, fails)} :
        r.err = ErrInvalidPut /\ r.h = Heap

C28_Witness ==
  \E c \in ChainIds :
    /\ Live(c)
    /\ ExprPut(Heap, ChainEnv(c), "Add()", 1, {}).err = ErrInvalidPut
    /\ ExprPut(Heap, ChainEnv(c), "Child.Add()", 1, {}).err = ErrInvalidPut
    /\ ExprPut(Heap, ChainEnv(c), "Child.Add()", 1, {}).h.calls = <<>>
    /\ ExprPut(Heap, ChainEnv(c), "Child.Count", 1, {}).err = NoErr
    /\ ExprPut(Heap, ChainEnv(c), "Child.Count", 1, {}).h.calls
         = <<<<"get", chains[c].disp, "Child">>, <<"put", Child(chains[c].disp), "Count">>>>

\* C29: evaluating "A.B(1,2).C" in a map that names a chain A resolves A from
\* the map without any foreign invocation, calls B on A's object with the
\* arguments 1 and 2 as plain integers, then gets C on the object the call
\* returned, in that order and nothing else; the call and the get each yield
\* a new chain and the result is the chain of the get. When A holds no
\* usable handle or the call fails, the later steps still yield chains and
\* issue no foreign invocation.
C29_CallThenGetInOrder ==
  \A c \in ChainIds, fails \in {{}, {"B"}, {"C"}} :
    \A r \in {Eval(Heap, "A.B(1,2).C", MapEnv("A" :> ChainVal(c)), fails)} :
      LET o     == chains[c].disp
          callB == <<"call", o, "B", <<IntVal(1), IntVal(2)>>>>
          n     == Len(chains)
      IN /\ r.err = NoErr
         /\ Len(r.h.chains) = n + 2
         /\ r.val = ChainVal(n + 2)
         /\ ~Live(c) => r.h.calls = <<>>
         /\ (Live(c) /\ "B" \in fails) =>
              /\ r.h.calls = <<callB>>
              /\ r.h.chains[n + 1].err = ErrCall
              /\ r.h.chains[n + 2].err = ErrCall
         /\ (Live(c) /\ "B" \notin fails) =>
              /\ r.h.calls = <<callB, <<"get", Child(o), "C">>>>
              /\ r.h.chains[n + 1].disp = Child(o)
              /\ r.h.chains[n + 1].err = NoErr
              /\ r.h.chains[n + 2].err = Ferr(fails, "C", ErrGet)
         /\ \A k \in 1..Len(r.h.calls) :
              r.h.calls[k][1] = "call" =>
                \A i \in 1..Len(r.h.calls[k][4]) : r.h.calls[k][4][i].kind = "int"

C29_Witness ==
  \E c \in ChainIds :
    /\ Live(c)
    /\ LET r == Eval(Heap, "A.B(1,2).C", MapEnv("A" :> ChainVal(c)), {})
       IN /\ r.h.calls = <<<<"call", chains[c].disp, "B", <<IntVal(1), IntVal(2)>>>>,
                           <<"get", Child(chains[c].disp), "C">>>>
          /\ r.val.kind = "chain"
          /\ r.h.chains[r.val.v].disp = Child(Child(chains[c].disp))

\* the chain refers to a foreign object and carries no scalar result
RefersToObject(h, c) ==
  /\ h.chains[c].err = NoErr
  /\ h.chains[c].disp # NIL
  /\ h.chains[c].lastResult.vt # "I4"

\* C30: whenever the expression evaluates without error to a chain that
\* refers to a foreign object and carries no scalar result, expression.Get
\* returns an error and no value, for an environment of any kind.
C30_GetNeverReturnsObject ==
  \A obj \in Envs, expression \in Expressions, fails \in Refusals :
    \A r \in {Eval(Heap, expression, obj, fails)} :
      (r.err = NoErr /\ r.val.kind = "chain" /\ RefersToObject(r.h, r.val.v)) =>
        \A g \in {ExprGet(Heap, obj, expression, fails)} :
          g.err # NoErr /\ g.val = NilVal

\* the foreign puts among the invocations of a log
Puts(calls) ==
  SelectSeq(calls, LAMBDA e : e[1] = "put")

\* an environment around the live chain c, a path to a scalar property in it
\* and the object the path left of the final member reaches
RoundTrips(c) ==
  LET o == chains[c].disp
  IN {[env |-> ChainEnv(c), path |-> "Child.Count", target |-> Child(o)],
      [env |-> HandleEnv(o), path |-> "Child.Count", target |-> Child(o)],
      [env |-> MapEnv("A" :> ChainVal(c)), path |-> "A.Count", target |-> o]}

C32_IntermediatesReleasedAtScopeExit ==
  (Len(frames) = 1 /\ Top.kind = "do" /\ ~Top.nested) =>
    \A env \in Envs, expression \in Expressions, fails \in Refusals :
      \A d \in {RunnerDoReturn(Heap, Top, NoErr).h} :
        /\ \A g \in {ExprGet(Heap, env, expression, fails)} :
             \A x \in Obj :
               RefCount(RunnerDoReturn(g.h, Top, NoErr).h, x) = RefCount(d, x)
        /\ \A p \in {ExprPut(Heap, env, expression, 0, fails)} :
             \A x \in Obj :
               RefCount(RunnerDoReturn(p.h, Top, NoErr).h, x) = RefCount(d, x)
        /\ \A s \in {ExprStore(Heap, env, expression, fails)} :
             \A x \in Obj :
               RefCount(RunnerDoReturn(s.h, Top, NoErr).h, x)
                 = RefCount(d, x) + (IF s.disp = x THEN 1 ELSE 0)

\* ---- the release-chain variant of Chain ----------------------------------------
\* The second revision of sugar.go keeps one mutable Chain per fluent
\* expression: every method works on the receiver and returns it, and the
\* handles the chain has to release are kept in releaseChain. Its chains are
\* records of this shape in the variable chains; its operations are the
\* actions of SpecRc, which never mixes them with chains of another revision.
RcChain(disp, err, lastResult, releaseChain) ==
  [disp |-> disp, err |-> err, lastResult |-> lastResult,
   releaseChain |-> releaseChain]

\* From takes no reference: the caller stays responsible for disp
RcFrom(h, disp) ==
  New(h, RcChain(disp, NoErr, NoResult, <<>>))

RcCreate(h, disp, err) ==
  IF err # NoErr
  THEN New(h, RcChain(NIL, err, NoResult, <<>>))
  ELSE New(AddRef(h, disp), RcChain(disp, NoErr, NoResult, <<disp>>))

RcHandleResult(h, c, result, err) ==
  IF err # NoErr
  THEN Ret([h EXCEPT !.chains[c].err = err], c)
  ELSE LET h1 == VariantClear(h, h.chains[c].lastResult)
       IN IF result.vt = "DISPATCH"
          THEN Ret([AddRef(AddRef(h1, result.val), result.val)
                      EXCEPT !.chains[c].lastResult = result,
                             !.chains[c].releaseChain = Append(@, result.val),
                             !.chains[c].disp = result.val], c)
          ELSE Ret([h1 EXCEPT !.chains[c].lastResult = result], c)

RcGet(h, c, prop, ferr) ==
  LET ch == h.chains[c] IN
  IF ch.err # NoErr \/ ch.disp = NIL
  THEN Ret(h, c)
  ELSE LET h1 == Invoke(h, "get", ch.disp, prop)
       IN IF ferr # NoErr
          THEN RcHandleResult(h1, c, NoResult, ferr)
          ELSE RcHandleResult(h1, c, PropertyValue(h1, ch.disp, prop), NoErr)

RcCall(h, c, method, ferr) ==
  LET ch == h.chains[c] IN
  IF ch.err # NoErr \/ ch.disp = NIL
  THEN Ret(h, c)
  ELSE LET h1 == Invoke(h, "call", ch.disp, method)
       IN IF ferr # NoErr
          THEN RcHandleResult(h1, c, NoResult, ferr)
          ELSE RcHandleResult([h1 EXCEPT !.count[ch.disp] = @ + 1], c,
                              Dispatch(Child(ch.disp)), NoErr)

RcPut(h, c, prop, v, ferr) ==
  LET ch == h.chains[c] IN
  IF ch.err # NoErr \/ ch.disp = NIL
  THEN Ret(h, c)
  ELSE LET h1 == Invoke(h, "put", ch.disp, prop)
           h2 == IF ferr # NoErr THEN [h1 EXCEPT !.chains[c].err = ferr]
                 ELSE IF prop = "Count" THEN [h1 EXCEPT !.count[ch.disp] = v]
                 ELSE h1
       IN Ret([VariantClear(h2, ch.lastResult) EXCEPT !.chains[c].lastResult = NoResult], c)

RcFork(h, c) ==
  LET ch == h.chains[c] IN
  IF ch.err # NoErr THEN New(h, RcChain(NIL, ch.err, NoResult, <<>>))
  ELSE IF ch.disp = NIL THEN New(h, RcChain(NIL, ErrNilDispatch, NoResult, <<>>))
  ELSE New(AddRef(h, ch.disp), RcChain(ch.disp, NoErr, NoResult, <<ch.disp>>))

\* the loop of Release over releaseChain, last to first
RECURSIVE RcReleaseLoop(_, _, _)
RcReleaseLoop(h, list, i) ==
  IF i < 1 THEN h ELSE RcReleaseLoop(ReleaseObj(h, list[i]), list, i - 1)

\* Release leaves c.disp as it is
RcRelease(h, c) ==
  LET ch == h.chains[c]
      h1 == RcReleaseLoop(h, ch.releaseChain, Len(ch.releaseChain))
      h2 == VariantClear(h1, ch.lastResult)
  IN [h |-> [h2 EXCEPT !.chains[c].releaseChain = <<>>,
                       !.chains[c].lastResult = NoResult,
                       !.chains[c].err = NoErr,
                       !.order = Append(@, c)],
      err |-> ch.err]

\* Store hands the reference of the last entry of releaseChain over to the
\* caller; on an errored chain it calls Release and then returns c.err, which
\* Release has reset
RcStore(h, c) ==
  LET ch == h.chains[c] IN
  IF ch.err # NoErr
  THEN LET r == RcRelease(h, c)
       IN [h |-> r.h, disp |-> NIL, err |-> r.h.chains[c].err]
  ELSE IF ch.disp = NIL
  THEN [h |-> RcRelease(h, c).h, disp |-> NIL, err |-> ErrNilDispatch]
  ELSE LET n == Len(ch.releaseChain)
           last == n > 0 /\ ch.releaseChain[n] = ch.disp
           h1 == IF last
                 THEN [h EXCEPT !.chains[c].releaseChain = SubSeq(@, 1, n - 1),
                                !.acquired[ch.disp] = @ - 1,
                                !.stored[ch.disp] = @ + 1]
                 ELSE h
       IN [h |-> RcRelease(h1, c).h, disp |-> ch.disp, err |-> NoErr]

\* Value releases the chain on every path
RcValue(h, c) ==
  LET ch == h.chains[c]
      r == RcRelease(h, c)
  IN IF ch.err # NoErr THEN [h |-> r.h, val |-> NoResult, err |-> r.err]
     ELSE IF ch.lastResult = NoResult THEN [h |-> r.h, val |-> NoResult, err |-> NoErr]
     ELSE IF ch.lastResult.vt = "DISPATCH"
     THEN [h |-> r.h, val |-> NoResult, err |-> ErrIsDispatch]
     ELSE [h |-> r.h, val |-> ch.lastResult, err |-> r.err]

RcErr(h, c) ==
  [h |-> h, err |-> h.chains[c].err]

\* ---- actions of the release-chain variant ---------------------------------------
RcFits(h) ==
  /\ Counted(h)
  /\ SumTo(NObj, h.acquired) <= MaxAcquired
  /\ SumTo(NObj, h.stored) <= MaxStored
  /\ \A c \in 1..Len(h.chains) : Len(h.chains[c].releaseChain) <= MaxTracked

OpRcFrom ==
  \E disp \in Obj \cup {NIL} :
    Commit(RcFrom(Heap, disp).h) /\ UNCHANGED Thread

OpRcCreate ==
  \E disp \in Obj, err \in {NoErr, ErrCreate} :
    /\ err # NoErr => disp = 1
    /\ \E r \in {RcCreate(Heap, disp, err)} : RcFits(r.h) /\ Commit(r.h)
    /\ UNCHANGED Thread

OpRcGet ==
  \E c \in ChainIds, prop \in {"Count", "Child"}, ferr \in {NoErr, ErrGet} :
    /\ \E r \in {RcGet(Heap, c, prop, ferr)} : RcFits(r.h) /\ Commit(r.h)
    /\ UNCHANGED Thread

OpRcCall ==
  \E c \in ChainIds, ferr \in {NoErr, ErrCall} :
    /\ \E r \in {RcCall(Heap, c, "Add", ferr)} : RcFits(r.h) /\ Commit(r.h)
    /\ UNCHANGED Thread

OpRcPut ==
  \E c \in ChainIds, v \in 0..MaxCount, ferr \in {NoErr, ErrPut} :
    /\ \E r \in {RcPut(Heap, c, "Count", v, ferr)} : RcFits(r.h) /\ Commit(r.h)
    /\ UNCHANGED Thread

OpRcFork ==
  \E c \in ChainIds :
    /\ \E r \in {RcFork(Heap, c)} : RcFits(r.h) /\ Commit(r.h)
    /\ UNCHANGED Thread

OpRcStore ==
  \E c \in ChainIds :
    /\ \E r \in {RcStore(Heap, c)} : RcFits(r.h) /\ Commit(r.h)
    /\ UNCHANGED Thread

OpRcRelease ==
  \E c \in ChainIds :
    Commit(RcRelease(Heap, c).h) /\ UNCHANGED Thread

OpRcValue ==
  \E c \in ChainIds :
    Commit(RcValue(Heap, c).h) /\ UNCHANGED Thread

OpRcErr ==
  \E c \in ChainIds :
    Commit(RcErr(Heap, c).h) /\ UNCHANGED Thread

\* the release-chain variant on its own
\* Do scopes under parents that may be cancelled, and the chains of their arenas
NextCancel ==
  \/ DoEnterAny \/ DoReturn
  \/ CtxCreate
  \/ OpGet \/ OpPut

SpecCancel == Init /\ [][NextCancel]_vars

NextRc ==
  \/ OpRcFrom \/ OpRcCreate
  \/ OpRcGet \/ OpRcCall \/ OpRcPut \/ OpRcFork
  \/ OpRcStore \/ OpRcRelease \/ OpRcValue \/ OpRcErr

SpecRc == Init /\ [][NextRc]_vars

\* what an operation leaves behind of a heap: the chains and the reference
\* counts, without the operation's own logs
Left(h) ==
  <<h.chains, h.arenas, h.acquired, h.released, h.stored, h.count>>

\* C33: for every chain of the release-chain variant, Value and Err follow one
\* release policy: both leave the chain and the reference counts exactly as
\* Release leaves them, or neither changes a reference count or the chain's
\* state.
C33_ValueErrOnePolicy ==
  \A c \in ChainIds :
    \/ /\ Left(RcValue(Heap, c).h) = Left(RcRelease(Heap, c).h)
       /\ Left(RcErr(Heap, c).h) = Left(RcRelease(Heap, c).h)
    \/ /\ Left(RcValue(Heap, c).h) = Left(Heap)
       /\ Left(RcErr(Heap, c).h) = Left(Heap)

\* the chains created through arena a: registered by its Create, GetActive or
\* From, or derived from such a chain (c.ctx is a)
CreatedThrough(a) ==
  {c \in ChainIds : chains[c].ctx = a}

\* the heaps left by the operations that the callback of the scope of arena a
\* performs when it only works through a and on the chains created through
\* it, and by the exit of that scope
ScopeOps(a) ==
  {Track(r.h, a, r.ret) : r \in {Create(Heap, o, NoErr) : o \in Obj}}
    \cup {Track(r.h, a, r.ret) : r \in {GetActive(Heap, o, NoErr) : o \in Obj}}
    \cup {Track(r.h, a, r.ret) : r \in {From(Heap, o) : o \in Obj}}
    \cup {Get(Heap, c, prop, ferr).h :
            c \in CreatedThrough(a), prop \in {"Count", "Child"}, ferr \in {NoErr, ErrGet}}
    \cup {Call(Heap, c, "Add", ferr).h : c \in CreatedThrough(a), ferr \in {NoErr, ErrCall}}
    \cup {Put(Heap, c, "Count", 0, ferr).h : c \in CreatedThrough(a), ferr \in {NoErr, ErrPut}}
    \cup {Fork(Heap, c).h : c \in CreatedThrough(a)}
    \cup {Store(Heap, c).h : c \in CreatedThrough(a)}
    \cup {chainRelease(Heap, c).h : c \in CreatedThrough(a)}
    \cup {ForEachAll(Heap, c, <<o, o>>, <<>>).h : c \in CreatedThrough(a), o \in Obj}
    \cup {RunnerDoReturn(Heap, DoFrame(a, FALSE), fnErr).h : fnErr \in {NoErr, Panic}}

\* C34: while a goroutine started by Go runs its scope, the callback working
\* only through the scope's own arena and the chains created through it, the
\* goroutine appends to and releases no arena but its own, and the operations
\* of every other scope leave the goroutine's arena as it is.
C34_ArenaConfinedToItsThread ==
  \A g \in 1..Len(gos) :
    \A b \in ArenaIds \ {gos[g].ctx} :
      /\ \A h \in ScopeOps(gos[g].ctx) : h.arenas[b] = arenas[b]
      /\ \A h \in ScopeOps(b) : h.arenas[gos[g].ctx] = arenas[gos[g].ctx]

\* a goroutine's arena and another arena both track a chain, and a Get on the
\* goroutine's chain appends to the goroutine's arena
C34_Witness ==
  \E g \in 1..Len(gos), b \in ArenaIds, c \in ChainIds :
    /\ b # gos[g].ctx
    /\ arenas[b].chains # <<>>
    /\ chains[c].ctx = gos[g].ctx
    /\ Len(Get(Heap, c, "Child", NoErr).h.arenas[gos[g].ctx].chains)
         = Len(arenas[gos[g].ctx].chains) + 1
    /\ RunnerDoReturn(Heap, DoFrame(gos[g].ctx, FALSE), NoErr).h.arenas[gos[g].ctx].isNil

\* the heap with the cancellation of arena a's parent turned around
Flip(h, a) ==
  [h EXCEPT !.arenas[a].done = ~@]

\* C35: the arena handed to the callback is done exactly when the parent of
\* the Do is; Do invokes the callback whether the parent is cancelled or not,
\* once its initialization succeeded; and no chain operation looks at the
\* cancellation: Get, Call, Put, Fork, Store, Release and the arena's release
\* do to a chain of a cancelled arena what they do to it in a live one.
C35_CancellationIsAdvisory ==
  /\ \A parent \in Parents, forceInit \in BOOLEAN :
       \A r \in {RunnerDo(Heap, parent, forceInit, NoErr)} :
         /\ r.entered /\ r.err = NoErr
         /\ Len(r.h.arenas) = Len(arenas) + 1
         /\ r.h.arenas[Len(r.h.arenas)].done = IsDone(Heap, parent)
  /\ \A a \in ArenaIds :
       /\ \A c \in CreatedThrough(a) :
            /\ \A prop \in {"Count", "Child"}, ferr \in {NoErr, ErrGet} :
                 /\ Get(Flip(Heap, a), c, prop, ferr).h = Flip(Get(Heap, c, prop, ferr).h, a)
                 /\ Get(Flip(Heap, a), c, prop, ferr).ret = Get(Heap, c, prop, ferr).ret
            /\ \A ferr \in {NoErr, ErrCall} :
                 Call(Flip(Heap, a), c, "Add", ferr).h = Flip(Call(Heap, c, "Add", ferr).h, a)
            /\ \A ferr \in {NoErr, ErrPut} :
                 Put(Flip(Heap, a), c, "Count", 0, ferr).h
                   = Flip(Put(Heap, c, "Count", 0, ferr).h, a)
            /\ Fork(Flip(Heap, a), c).h = Flip(Fork(Heap, c).h, a)
            /\ Store(Flip(Heap, a), c).h = Flip(Store(Heap, c).h, a)
            /\ Store(Flip(Heap, a), c).err = Store(Heap, c).err
            /\ chainRelease(Flip(Heap, a), c).h = Flip(chainRelease(Heap, c).h, a)
       /\ ContextRelease(Flip(Heap, a), a).h = Flip(ContextRelease(Heap, a).h, a)

\* a Do entered under a cancelled parent: its arena is done, the callback
\* runs, and a Get on a chain of that arena reaches the foreign runtime
C35_Witness ==
  /\ frames # <<>> /\ Top.kind = "do"
  /\ arenas[Top.ctx].done
  /\ \E c \in CreatedThrough(Top.ctx) :
       /\ chains[c].disp # NIL
       /\ Get(Heap, c, "Count", NoErr).h.calls = <<<<"get", chains[c].disp, "Count">>>>
       /\ Get(Heap, c, "Count", NoErr).h.chains[Get(Heap, c, "Count", NoErr).ret].err = NoErr
  /\ RunnerDo(Heap, CancelledCtx, FALSE, NoErr).entered

\* chain c holds a handle it took no reference for
Borrows(c) ==
  chains[c].disp # NIL /\ ~chains[c].owns

\* some chain still owns a reference on object o
OwnerLive(o) ==
  \E k \in ChainIds : chains[k].owns /\ chains[k].disp = o

\* C36: once the chain that owned the reference on an object has been
\* released, a chain that borrowed the handle (the chain of a scalar result,
\* the chain of a failed Put) issues no foreign get, call, put or enumeration
\* on it.
C36_NoUseAfterOwnerRelease ==
  \A c \in ChainIds :
    (Borrows(c) /\ ~OwnerLive(chains[c].disp)) =>
      /\ \A prop \in {"Count", "Child"} : Get(Heap, c, prop, NoErr).h.calls = <<>>
      /\ Call(Heap, c, "Add", NoErr).h.calls = <<>>
      /\ Put(Heap, c, "Count", 0, NoErr).h.calls = <<>>
      /\ \A o \in Obj : ForEachAll(Heap, c, <<o>>, <<>>).h.calls = <<>>

\* the foreign releases on object o that releasing each chain of ids once
\* issues: one for a handle on o, one for a cached result that is o
HeldIn(ids, o) ==
  Cardinality({k \in ids : chains[k].disp = o})
    + Cardinality({k \in ids : chains[k].lastResult = Dispatch(o)})

\* chain k is registered with the arena of the nested Do and with the arena
\* of the Do around it
TrackedTwice(k) ==
  /\ InNestedDo
  /\ k \in Range(arenas[Top.ctx].chains)
  /\ k \in Range(arenas[Outer.ctx].chains)

\* C37: a chain registered with the arena of a nested Do and with the arena of
\* the enclosing Do is released by the nested arena when the nested Do
\* returns, its handle once; the release of the outer arena afterwards
\* releases it no second time and reports no error for it: a further Release
\* of the chain issues nothing and returns nil, and over both scope exits each
\* chain of the two arenas has had its references released once.
C37_TrackedTwiceReleasedOnce ==
  \A k \in ChainIds :
    TrackedTwice(k) =>
      \A d1 \in {RunnerDoReturn(Heap, Top, NoErr)} :
        \A d2 \in {RunnerDoReturn(d1.h, Outer, NoErr)} :
          /\ k \in Range(d1.h.order)
          /\ d1.h.chains[k].disp = NIL /\ d1.h.chains[k].err = NoErr
          /\ \A o \in Obj :
               /\ Occ(d1.h.relLog, o) = HeldIn(Range(arenas[Top.ctx].chains), o)
               /\ Occ(d2.h.relLog, o)
                    = HeldIn(Range(arenas[Top.ctx].chains) \cup Range(arenas[Outer.ctx].chains), o)
          /\ chainRelease(d1.h, k).h.relLog = d1.h.relLog
          /\ chainRelease(d1.h, k).err = NoErr
          /\ (\A j \in Range(arenas[Outer.ctx].chains) \ Range(arenas[Top.ctx].chains) :
                chains[j].err = NoErr) => d2.err = NoErr

\* a chain holding a reference is registered with both arenas; the nested
\* Do's return releases its object once and the outer Do's return adds nothing
C37_Witness ==
  \E k \in ChainIds :
    /\ TrackedTwice(k)
    /\ chains[k].owns /\ chains[k].disp # NIL
    /\ Occ(RunnerDoReturn(Heap, Top, NoErr).h.relLog, chains[k].disp) = 1
    /\ Occ(RunnerDoReturn(RunnerDoReturn(Heap, Top, NoErr).h, Outer, NoErr).h.relLog,
           chains[k].disp) = 1

\* the chain an errored Get or Call returns: what it leaves and whether any
\* arena tracks it
Untracked(r) ==
  \A a \in 1..Len(r.h.arenas) : r.ret \notin Range(r.h.arenas[a].chains)

\* C38: when fn returns nil, Do returns an error exactly when a chain tracked
\* by its arena is in an error state at the scope's exit; when fn returns an
\* error Do returns one; the errored chain that a Get or Call returns is
\* tracked by no arena and leaves the result of Do as it was.
C38_DoReportsTrackedErrors ==
  (frames # <<>> /\ Top.kind = "do") =>
    /\ (RunnerDoReturn(Heap, Top, NoErr).err # NoErr)
         <=> (\E k \in Range(arenas[Top.ctx].chains) : chains[k].err # NoErr)
    /\ \A e \in CallbackErrs : RunnerDoReturn(Heap, Top, e).err # NoErr
    /\ \A c \in ChainIds :
         /\ \A prop \in {"Count", "Child"}, ferr \in {NoErr, ErrGet} :
              \A r \in {Get(Heap, c, prop, ferr)} :
                r.h.chains[r.ret].err # NoErr =>
                  /\ Untracked(r)
                  /\ RunnerDoReturn(r.h, Top, NoErr).err = RunnerDoReturn(Heap, Top, NoErr).err
         /\ \A ferr \in {NoErr, ErrCall} :
              \A r \in {Call(Heap, c, "Add", ferr)} :
                r.h.chains[r.ret].err # NoErr =>
                  /\ Untracked(r)
                  /\ RunnerDoReturn(r.h, Top, NoErr).err = RunnerDoReturn(Heap, Top, NoErr).err

\* the arena of the innermost Do tracks an errored chain, so that Do returns
\* its error although fn returns nil; and in a scope without one, a Get that
\* the foreign runtime refuses yields an errored chain and Do still returns nil
C38_Witness ==
  /\ frames # <<>> /\ Top.kind = "do"
  /\ \E k \in Range(arenas[Top.ctx].chains) :
       chains[k].err # NoErr /\ RunnerDoReturn(Heap, Top, NoErr).err = chains[k].err
  /\ \E c \in Range(arenas[Top.ctx].chains) :
       /\ Live(c)
       /\ Get(Heap, c, "Count", ErrGet).h.chains[Get(Heap, c, "Count", ErrGet).ret].err = ErrGet
       /\ Untracked(Get(Heap, c, "Count", ErrGet))

\* a and b each occur once in seq, a before b
Before(seq, a, b) ==
  /\ Occ(seq, a) = 1 /\ Occ(seq, b) = 1
  /\ \E i, j \in 1..Len(seq) : i < j /\ seq[i] = a /\ seq[j] = b

\* C39: a Do that initialized the runtime itself tears down, however fn ends
\* (nil, an error, a panic), in the order arena release, un-initialization,
\* unpin; once it has un-initialized, its arena and the chains the arena
\* tracked release nothing more; a successful initialization is followed by
\* one un-initialization, a failed one by none.
C39_TeardownOrder ==
  /\ (frames # <<>> /\ Top.kind = "do" /\ ~Top.nested) =>
       \A fnErr \in {NoErr, Panic} \cup CallbackErrs :
         \A d \in {RunnerDoReturn(Heap, Top, fnErr)} :
           /\ Before(d.h.steps, "release", "uninit")
           /\ Before(d.h.steps, "uninit", "unlock")
           /\ ContextRelease(d.h, Top.ctx).h.relLog = d.h.relLog
           /\ \A k \in Range(arenas[Top.ctx].chains) :
                chainRelease(d.h, k).h.relLog = d.h.relLog
  /\ \A parent \in Parents, forceInit \in BOOLEAN :
       /\ \A r \in {RunnerDo(Heap, parent, forceInit, NoErr)} :
            ~r.nested =>
              \A fnErr \in {NoErr, Panic} \cup CallbackErrs :
                \A d \in {RunnerDoReturn(r.h, DoFrame(Len(r.h.arenas), FALSE), fnErr)} :
                  /\ Before(d.h.steps, "lock", "init")
                  /\ Before(d.h.steps, "init", "release")
                  /\ Before(d.h.steps, "release", "uninit")
                  /\ Before(d.h.steps, "uninit", "unlock")
       /\ \A x \in {RunnerDo(Heap, parent, forceInit, ErrInit)} :
            ~x.nested =>
              /\ ~x.entered
              /\ Occ(x.h.steps, "init") = 0 /\ Occ(x.h.steps, "uninit") = 0
              /\ Occ(x.h.steps, "release") = 0

\* a Do that initialized the runtime, with a chain holding a handle in its
\* arena: a panic in fn still releases the handle and then un-initializes
C39_Witness ==
  /\ frames # <<>> /\ Top.kind = "do" /\ ~Top.nested
  /\ comInit >= 1
  /\ \E k \in Range(arenas[Top.ctx].chains) :
       /\ chains[k].disp # NIL
       /\ Occ(RunnerDoReturn(Heap, Top, Panic).h.relLog, chains[k].disp) >= 1
       /\ Before(RunnerDoReturn(Heap, Top, Panic).h.steps, "release", "uninit")
       /\ RunnerDoReturn(Heap, Top, NoErr).h.steps = <<"release", "uninit", "unlock">>

\* C40: in the release-chain variant, Store on a chain in an error state
\* returns that error and no handle and acquires no reference; in no state
\* does Store return no handle together with a nil error.
C40_StoreOnErroredChain ==
  \A c \in ChainIds :
    \A s \in {RcStore(Heap, c)} :
      /\ chains[c].err # NoErr =>
           /\ s.err = chains[c].err /\ s.disp = NIL
           /\ s.h.acquired = acquired /\ s.h.stored = stored
      /\ ~(s.disp = NIL /\ s.err = NoErr)

====
